---- MODULE Spec2Model ----
(***************************************************************************)
(* State-machine model of the sensor / alert / shelter core of             *)
(* mcp_rag_gis_system:                                                     *)
(*   - SensorService (src/src/services/sensor_service.py): in-memory       *)
(*     sensor registry, record_reading -> _check_alerts -> _trigger_alert  *)
(*     over the tables sensor_readings and sensor_alerts;                  *)
(*   - TimescaleService (src/src/services/timescale_service.py):           *)
(*     resolver_alerta over alertas_temperatura and                        *)
(*     actualizar_capacidad_refugio over refugios, reached through the     *)
(*     HTTP router (src/src/api/routers/sensores.py) and the MCP tool      *)
(*     handler (src/src/mcp_servers/timescale_server.py).                  *)
(* Every coroutine is cut at its await points: a database statement is     *)
(* one atomic step of the database, the code before and after it runs      *)
(* without interleaving (asyncio).                                         *)
(***************************************************************************)
EXTENDS Integers, Sequences, FiniteSets, TLC

\* ---------------------------------------------------------------- bounds
\* The clock stops at MaxTime.
MaxTime == 2
\* Largest capacidad_maxima of a shelter row.
MaxCap == 2
\* Rows the table sensor_readings may hold.
MaxReadings == 2
\* Recipients of one send_sms_bulk call.
MaxRecipients == 3
\* Bodies handed to the SMS gateway.
MaxSends == 2
\* Tasks created for _simulation_loop.
MaxLoops == 3

\* SQL NULL of a timestamp column.
NULL == -1

\* ---------------------------------------------------------------- state
VARIABLES
    now,                 \* wall clock: NOW() / datetime.now()
    refugios,            \* table refugios: id -> row
    alertas_temperatura, \* table alertas_temperatura: id -> row
    req,                 \* API requests in flight: slot -> request record
    sensors,             \* SensorService.sensors: sensor_id -> SensorInfo
    sensors_table,       \* table sensors: sensor_id -> row
    sensor_readings,     \* table sensor_readings, in insertion (SERIAL) order
    sensor_alerts,       \* table sensor_alerts, in insertion (SERIAL) order
    task,                \* record_reading coroutines: slot -> coroutine record
    sensores,            \* table sensores: the ids that have a row
    observaciones,       \* table observaciones, in insertion (SERIAL) order
    resultado,           \* rows returned by the last query that was answered
    bulk,                \* send_sms_bulk calls: slot -> call record
    twilio_enabled,      \* TwilioService.enabled
    envio,               \* enviar_sms_alerta handlers: slot -> handler record
    gateway,             \* bodies handed to Twilio's messages.create, in order
    red,                 \* road graph and the nodes sensors and shelters snap to
    simulation_running,  \* SensorService.simulation_running
    simulation_task,     \* SensorService.simulation_task: 0 (None) or a task of loops
    loops,               \* tasks made of _simulation_loop, in creation order
    sim_req,             \* simulation start/stop handlers: slot -> handler record
    server_configs,      \* ServerManager.server_configs, in order
    fallan,              \* servers whose start_server would return False
    processes,           \* ServerManager.processes: the names that have a child
    running,             \* ServerManager.running
    run                  \* ServerManager.run: where the call is and how it ended

vars == <<now, refugios, alertas_temperatura, req, sensors, sensors_table,
          sensor_readings, sensor_alerts, task, sensores, observaciones,
          resultado, bulk, twilio_enabled, envio, gateway, red,
          simulation_running, simulation_task, loops, sim_req,
          server_configs, fallan, processes, running, run>>

\* The tables of TimescaleService's observation store.
ObsState == <<sensores, observaciones>>

\* What TwilioService holds.
SmsState == <<bulk, twilio_enabled>>

\* What the alert SMS handlers hold and what reached the gateway.
EnvioState == <<envio, gateway>>

\* What the evacuation planner reads.
RutaState == <<red>>

\* What the simulation of SensorService holds.
SimState == <<simulation_running, simulation_task, loops, sim_req>>

\* What the ServerManager of scripts/run_servers.py holds and meets.
MgrState == <<server_configs, fallan, processes, running, run>>

\* The state that the handlers of the shelter, alert, sensor, observation,
\* query and bulk SMS sections never touch.
AmpliadoState == <<EnvioState, RutaState, SimState, MgrState>>

\* AmpliadoState without the part each subsystem writes.
FueraDeEnvio == <<RutaState, SimState, MgrState>>
FueraDeRuta == <<EnvioState, SimState, MgrState>>
FueraDeSim == <<EnvioState, RutaState, MgrState>>
FueraDeMgr == <<EnvioState, RutaState, SimState>>

\* What SensorService and its tables hold.
SensorState == <<sensors, sensors_table, sensor_readings, sensor_alerts, task>>

\* Concurrent API requests (FastAPI handlers / MCP tool calls).
Reqs == {1, 2}

IdleReq ==
    [pc |-> "idle", via |-> "none", op |-> "none", id |-> "none", valor |-> 0,
     usuario |-> "none", success |-> FALSE, raised |-> FALSE,
     response |-> "none"]

\* A request slot is free before its first call and after its response.
Free(r) == req[r].pc \in {"idle", "done"}

\* ------------------------------------------------------------- refugios
\* Shelter ids that have a row, and one id that has none.
RefugioIds == {"r1", "r2"}
UnknownRefugio == "r9"

\* nueva_capacidad values a caller may send.
Capacidades == -1 .. (MaxCap + 1)

\* The UPDATE of actualizar_capacidad_refugio with the test against
\* capacidad_maxima left out of its WHERE clause.
UpdateCapacidad_SinTope(tabla, id, nueva) ==
    IF id \in DOMAIN tabla
    THEN [tabla EXCEPT ![id].capacidad_actual = nueva]
    ELSE tabla

\* UPDATE refugios SET capacidad_actual = $2 WHERE id = $1
\*                                        AND $2 <= capacidad_maxima
UpdateCapacidad(tabla, id, nueva) ==
    IF id \in DOMAIN tabla /\ nueva <= tabla[id].capacidad_maxima
    THEN [tabla EXCEPT ![id].capacidad_actual = nueva]
    ELSE tabla

\* Query(..., ge=0) of the HTTP route: FastAPI answers 422 before the
\* handler runs when nueva_capacidad < 0.
HttpActualizarCapacidad(r, id, nueva) ==
    /\ Free(r)
    /\ req' = [req EXCEPT ![r] =
                 IF nueva >= 0
                 THEN [IdleReq EXCEPT !.pc = "svc", !.via = "http",
                          !.op = "actualizar_capacidad_refugio", !.id = id,
                          !.valor = nueva, !.usuario = "api_user"]
                 ELSE [IdleReq EXCEPT !.pc = "done", !.via = "http",
                          !.op = "actualizar_capacidad_refugio", !.id = id,
                          !.valor = nueva, !.usuario = "api_user",
                          !.response = "422"]]
    /\ UNCHANGED <<AmpliadoState, ObsState, resultado, SmsState, now, refugios, alertas_temperatura, SensorState>>

\* call_tool branch "actualizar_capacidad_refugio": the handler body passes
\* the arguments on unchecked.
McpActualizarCapacidad(r, id, nueva) ==
    /\ Free(r)
    /\ req' = [req EXCEPT ![r] =
                 [IdleReq EXCEPT !.pc = "svc", !.via = "mcp",
                     !.op = "actualizar_capacidad_refugio", !.id = id,
                     !.valor = nueva, !.usuario = "mcp_user"]]
    /\ UNCHANGED <<AmpliadoState, ObsState, resultado, SmsState, now, refugios, alertas_temperatura, SensorState>>

\* inputSchema "minimum": 0 of the tool: an SDK that validates tool input
\* refuses a negative nueva_capacidad before call_tool runs (one that does
\* not validate lets McpActualizarCapacidad take it).
McpSchemaRejects(r, id, nueva) ==
    /\ Free(r)
    /\ nueva < 0
    /\ req' = [req EXCEPT ![r] =
                 [IdleReq EXCEPT !.pc = "done", !.via = "mcp",
                     !.op = "actualizar_capacidad_refugio", !.id = id,
                     !.valor = nueva, !.usuario = "mcp_user",
                     !.response = "mcp_invalid"]]
    /\ UNCHANGED <<AmpliadoState, ObsState, resultado, SmsState, now, refugios, alertas_temperatura, SensorState>>

\* TimescaleService.actualizar_capacidad_refugio, the awaited
\* execute_command: the database runs the UPDATE as one statement and the
\* method returns True whatever the number of rows it touched.
ActualizarCapacidadRefugio(r) ==
    /\ req[r].pc = "svc"
    /\ req[r].op = "actualizar_capacidad_refugio"
    /\ refugios' = UpdateCapacidad(refugios, req[r].id, req[r].valor)
    /\ req' = [req EXCEPT ![r].pc = "ret", ![r].success = TRUE]
    /\ UNCHANGED <<AmpliadoState, ObsState, resultado, SmsState, now, alertas_temperatura, SensorState>>

\* execute_command raises (connection lost, statement error): the service
\* logs and re-raises, nothing is written.
ExecuteCommandRaises(r) ==
    /\ req[r].pc = "svc"
    /\ req' = [req EXCEPT ![r].pc = "ret", ![r].raised = TRUE]
    /\ UNCHANGED <<AmpliadoState, ObsState, resultado, SmsState, now, refugios, alertas_temperatura, SensorState>>

\* Tail of the HTTP handlers resolver_alerta / actualizar_capacidad_refugio:
\* "if success" answers 200; the HTTPException of the else branch is raised
\* inside the try and caught by "except Exception", which answers 500, as
\* does an exception of the service.
RouterStatus(success, raised) ==
    IF raised THEN "500"
    ELSE IF success THEN "200"
    ELSE "500"

RouterResponde(r) ==
    /\ req[r].pc = "ret"
    /\ req[r].via = "http"
    /\ req' = [req EXCEPT ![r].pc = "done",
                  ![r].response = RouterStatus(req[r].success, req[r].raised)]
    /\ UNCHANGED <<AmpliadoState, ObsState, resultado, SmsState, now, refugios, alertas_temperatura, SensorState>>

\* Tail of the call_tool branches: the success text, the failure text of
\* the else branch, or the text of the outer "except Exception".
McpTexto(success, raised) ==
    IF raised THEN "mcp_error"
    ELSE IF success THEN "mcp_ok"
    ELSE "mcp_fail"

McpResponde(r) ==
    /\ req[r].pc = "ret"
    /\ req[r].via = "mcp"
    /\ req' = [req EXCEPT ![r].pc = "done",
                  ![r].response = McpTexto(req[r].success, req[r].raised)]
    /\ UNCHANGED <<AmpliadoState, ObsState, resultado, SmsState, now, refugios, alertas_temperatura, SensorState>>

\* Responses that tell the caller the command was carried out.
Exito == {"200", "mcp_ok"}


\* --------------------------------------------------- alertas_temperatura
\* Alert ids that have a row, and one id that has none.
AlertaIds == {"a1", "a2"}
UnknownAlerta == "a9"

\* Values of the column estado.
Estados == {"activa", "reconocida", "resuelta"}

\* The UPDATE of resolver_alerta with "AND estado = 'activa'" left out.
UpdateResolver_SinEstado(tabla, id, usuario, t) ==
    IF id \in DOMAIN tabla
    THEN [tabla EXCEPT ![id].estado = "resuelta",
                       ![id].fecha_resolucion = t,
                       ![id].personal_notificado =
                           Append(@, <<"Resuelto por", usuario, t>>)]
    ELSE tabla

\* The UPDATE of resolver_alerta writing the acknowledged state to any row
\* of that id.
UpdateResolver_Reconoce(tabla, id, usuario, t) ==
    IF id \in DOMAIN tabla
    THEN [tabla EXCEPT ![id].estado = "reconocida",
                       ![id].personal_notificado =
                           Append(@, <<"Resuelto por", usuario, t>>)]
    ELSE tabla

\* UPDATE alertas_temperatura
\* SET estado = 'resuelta', fecha_resolucion = NOW(),
\*     personal_notificado = CONCAT(COALESCE(personal_notificado, ''),
\*                                  '; Resuelto por: ', $2, ' el ', NOW())
\* WHERE id = $1 AND estado = 'activa'
UpdateResolver(tabla, id, usuario, t) ==
    IF id \in DOMAIN tabla /\ tabla[id].estado = "activa"
    THEN [tabla EXCEPT ![id].estado = "resuelta",
                       ![id].fecha_resolucion = t,
                       ![id].personal_notificado =
                           Append(@, <<"Resuelto por", usuario, t>>)]
    ELSE tabla

\* PUT /alertas/{alerta_id}/resolver: the handler calls the service at once.
HttpResolverAlerta(r, id) ==
    /\ Free(r)
    /\ req' = [req EXCEPT ![r] =
                 [IdleReq EXCEPT !.pc = "svc", !.via = "http",
                     !.op = "resolver_alerta", !.id = id,
                     !.usuario = "api_user"]]
    /\ UNCHANGED <<AmpliadoState, ObsState, resultado, SmsState, now, refugios, alertas_temperatura, SensorState>>

\* call_tool branch "resolver_alerta".
McpResolverAlerta(r, id) ==
    /\ Free(r)
    /\ req' = [req EXCEPT ![r] =
                 [IdleReq EXCEPT !.pc = "svc", !.via = "mcp",
                     !.op = "resolver_alerta", !.id = id,
                     !.usuario = "mcp_user"]]
    /\ UNCHANGED <<AmpliadoState, ObsState, resultado, SmsState, now, refugios, alertas_temperatura, SensorState>>

\* TimescaleService.resolver_alerta, the awaited execute_command: one
\* UPDATE statement, then "return True" whatever the statement matched.
ResolverAlerta(r) ==
    /\ req[r].pc = "svc"
    /\ req[r].op = "resolver_alerta"
    /\ alertas_temperatura' =
          UpdateResolver(alertas_temperatura, req[r].id, req[r].usuario, now)
    /\ req' = [req EXCEPT ![r].pc = "ret", ![r].success = TRUE]
    /\ UNCHANGED <<AmpliadoState, ObsState, resultado, SmsState, now, refugios, SensorState>>

\* Time passes between two steps.
Tick ==
    /\ now < MaxTime
    /\ now' = now + 1
    /\ UNCHANGED <<AmpliadoState, ObsState, resultado, SmsState, refugios, alertas_temperatura, req, SensorState>>


\* -------------------------------------------------------- SensorService
\* Coroutines of SensorService that may be in flight at the same time.
Tasks == {1, 2}

\* The sensor ids callers register, and one id nobody registers.
SensorIds == {"s1", "s2"}
UnknownSensor == "s9"

\* SensorInfo values handed to register_sensor.
SensorInfos == {[sensor_type |-> "temperature", active |-> TRUE]}

\* settings.sensors.default_thresholds
default_thresholds ==
    [temperature |-> [min |-> -10, max |-> 45, critical |-> 50],
     humidity    |-> [min |-> 10,  max |-> 90, critical |-> 95],
     air_quality |-> [min |-> 0,   max |-> 150, critical |-> 300],
     noise       |-> [min |-> 0,   max |-> 70, critical |-> 85],
     occupancy   |-> [min |-> 0,   max |-> 100, critical |-> 120]]

\* (reading_type, value) pairs callers send: the values around the three
\* temperature thresholds, and a type that has no thresholds.
ReadingInputs ==
    ({"temperature"} \X {-11, -10, 45, 46, 50, 51}) \cup {<<"pressure", 46>>}

NoAlert == [level |-> "None", message |-> "None"]

\* _check_alerts with the comparison against 'max' made inclusive.
CheckAlerts_MaxInclusive(reading_type, value, sensor_known) ==
    IF reading_type \notin DOMAIN default_thresholds THEN NoAlert
    ELSE IF ~sensor_known THEN NoAlert
    ELSE LET thresholds == default_thresholds[reading_type] IN
         IF value >= thresholds.critical
         THEN [level |-> "CRITICAL", message |-> "Valor critico"]
         ELSE IF value >= thresholds.max
         THEN [level |-> "WARNING", message |-> "Valor alto"]
         ELSE IF value < thresholds.min
         THEN [level |-> "WARNING", message |-> "Valor bajo"]
         ELSE NoAlert

\* _check_alerts up to its call of _trigger_alert: the level and message it
\* passes on, NoAlert when it returns without calling.
CheckAlerts(reading_type, value, sensor_known) ==
    IF reading_type \notin DOMAIN default_thresholds THEN NoAlert
    ELSE IF ~sensor_known THEN NoAlert
    ELSE LET thresholds == default_thresholds[reading_type] IN
         IF value >= thresholds.critical
         THEN [level |-> "CRITICAL", message |-> "Valor critico"]
         ELSE IF value > thresholds.max
         THEN [level |-> "WARNING", message |-> "Valor alto"]
         ELSE IF value < thresholds.min
         THEN [level |-> "WARNING", message |-> "Valor bajo"]
         ELSE NoAlert

IdleTask ==
    [pc |-> "idle", op |-> "none", sensor_id |-> "none",
     reading_type |-> "none", value |-> 0, level |-> "None",
     message |-> "None", ret |-> "none"]

\* A coroutine that returned: the slot is free again and keeps the value
\* returned to the caller.
Returned(val) == [IdleTask EXCEPT !.ret = val]

\* Readings and observations already stored plus those whose INSERT is
\* awaited.
ReadingsInFlight ==
    Len(sensor_readings) + Cardinality({t \in Tasks : task[t].pc = "insert"})
    + Len(observaciones)
    + Cardinality({r \in Reqs : /\ req[r].pc = "svc"
                                /\ req[r].op = "insertar_observacion"})

\* register_sensor up to its awaited upsert.
RegisterSensor(t, s) ==
    /\ task[t].pc = "idle"
    /\ task' = [task EXCEPT ![t] =
                  [IdleTask EXCEPT !.pc = "upsert", !.op = "register_sensor",
                      !.sensor_id = s]]
    /\ UNCHANGED <<AmpliadoState, ObsState, resultado, SmsState, now, refugios, alertas_temperatura, req, sensors,
                   sensors_table, sensor_readings, sensor_alerts>>

\* INSERT INTO sensors ... ON CONFLICT (sensor_id) DO UPDATE is run by the
\* database.
UpsertSensor(t, info) ==
    /\ task[t].pc = "upsert"
    /\ sensors_table' =
          [id \in DOMAIN sensors_table \cup {task[t].sensor_id} |->
              IF id = task[t].sensor_id THEN info ELSE sensors_table[id]]
    /\ task' = [task EXCEPT ![t].pc = "memoria"]
    /\ UNCHANGED <<AmpliadoState, ObsState, resultado, SmsState, now, refugios, alertas_temperatura, req, sensors,
                   sensor_readings, sensor_alerts>>

\* The upsert raising and register_sensor adding the sensor to memory all
\* the same before it returns False.
UpsertSensorRaises_Registra(t) ==
    /\ task[t].pc = "upsert"
    /\ task' = [task EXCEPT ![t] =
                  [Returned("False") EXCEPT !.op = "register_sensor"]]
    /\ sensors' =
          [id \in DOMAIN sensors \cup {task[t].sensor_id} |->
              IF id = task[t].sensor_id
              THEN CHOOSE info \in SensorInfos : TRUE
              ELSE sensors[id]]
    /\ UNCHANGED <<AmpliadoState, ObsState, resultado, SmsState, now, refugios,
                   alertas_temperatura, req, sensors_table, sensor_readings,
                   sensor_alerts>>

\* The upsert raises: register_sensor logs and returns False. The slot
\* keeps that it was a registration that failed.
UpsertSensorRaises(t) ==
    /\ task[t].pc = "upsert"
    /\ task' = [task EXCEPT ![t] =
                  [Returned("False") EXCEPT !.op = "register_sensor"]]
    /\ UNCHANGED <<AmpliadoState, ObsState, resultado, SmsState, now, refugios, alertas_temperatura, req, sensors,
                   sensors_table, sensor_readings, sensor_alerts>>

\* register_sensor after the upsert: self.sensors[sensor_id] = sensor_info,
\* return True.
RegisterSensorMemoria(t, info) ==
    /\ task[t].pc = "memoria"
    /\ sensors' =
          [id \in DOMAIN sensors \cup {task[t].sensor_id} |->
              IF id = task[t].sensor_id THEN info ELSE sensors[id]]
    /\ task' = [task EXCEPT ![t] = Returned("True")]
    /\ UNCHANGED <<AmpliadoState, ObsState, resultado, SmsState, now, refugios, alertas_temperatura, req, sensors_table,
                   sensor_readings, sensor_alerts>>

\* record_reading up to its awaited insert_sensor_reading; an id that is not
\* in self.sensors returns False at once.
RecordReading(t, s, reading_type, value) ==
    /\ task[t].pc = "idle"
    /\ ReadingsInFlight < MaxReadings
    /\ task' = [task EXCEPT ![t] =
                  IF s \notin DOMAIN sensors
                  THEN Returned("False")
                  ELSE [IdleTask EXCEPT !.pc = "insert",
                           !.op = "record_reading", !.sensor_id = s,
                           !.reading_type = reading_type, !.value = value]]
    /\ UNCHANGED <<AmpliadoState, ObsState, resultado, SmsState, now, refugios, alertas_temperatura, req, sensors,
                   sensors_table, sensor_readings, sensor_alerts>>

\* TimescaleClient.insert_sensor_reading: INSERT INTO sensor_readings is run
\* by the database.
InsertSensorReading(t) ==
    /\ task[t].pc = "insert"
    /\ sensor_readings' =
          Append(sensor_readings,
                 [sensor_id |-> task[t].sensor_id,
                  reading_type |-> task[t].reading_type,
                  value |-> task[t].value, timestamp |-> now])
    /\ task' = [task EXCEPT ![t].pc = "check"]
    /\ UNCHANGED <<AmpliadoState, ObsState, resultado, SmsState, now, refugios, alertas_temperatura, req, sensors,
                   sensors_table, sensor_alerts>>

\* insert_sensor_reading reporting success although its INSERT raised.
InsertSensorReadingFails_Evalua(t) ==
    /\ task[t].pc = "insert"
    /\ task' = [task EXCEPT ![t].pc = "check"]
    /\ UNCHANGED <<AmpliadoState, ObsState, resultado, SmsState, now, refugios,
                   alertas_temperatura, req, sensors, sensors_table,
                   sensor_readings, sensor_alerts>>

\* insert_sensor_reading catches the exception of the INSERT and returns
\* False; record_reading returns it without checking alerts.
InsertSensorReadingFails(t) ==
    /\ task[t].pc = "insert"
    /\ task' = [task EXCEPT ![t] = Returned("False")]
    /\ UNCHANGED <<AmpliadoState, ObsState, resultado, SmsState, now, refugios, alertas_temperatura, req, sensors,
                   sensors_table, sensor_readings, sensor_alerts>>

\* record_reading after the insert returned True: _check_alerts runs up to
\* the awaited INSERT of _trigger_alert, or returns and record_reading
\* returns True.
CheckAlertsStep(t) ==
    /\ task[t].pc = "check"
    /\ LET alert == CheckAlerts(task[t].reading_type, task[t].value,
                                task[t].sensor_id \in DOMAIN sensors) IN
       task' = [task EXCEPT ![t] =
                  IF alert = NoAlert
                  THEN Returned("True")
                  ELSE [task[t] EXCEPT !.pc = "trigger",
                           !.level = alert.level, !.message = alert.message]]
    /\ UNCHANGED <<AmpliadoState, ObsState, resultado, SmsState, now, refugios, alertas_temperatura, req, sensors,
                   sensors_table, sensor_readings, sensor_alerts>>

\* INSERT INTO sensor_alerts (sensor_id, reading_type, value, level,
\* message, timestamp) VALUES (...) ON CONFLICT DO NOTHING: the table has
\* the SERIAL id as its only key, so no row conflicts; resolved defaults
\* to False.
InsertAlert(tabla, sensor_id, reading_type, value, level, message, t) ==
    Append(tabla, [sensor_id |-> sensor_id, reading_type |-> reading_type,
                   value |-> value, level |-> level, message |-> message,
                   timestamp |-> t, resolved |-> FALSE])

\* _trigger_alert: the INSERT is run by the database, then record_reading
\* returns True.
TriggerAlert(t) ==
    /\ task[t].pc = "trigger"
    /\ sensor_alerts' =
          InsertAlert(sensor_alerts, task[t].sensor_id, task[t].reading_type,
                      task[t].value, task[t].level, task[t].message, now)
    /\ task' = [task EXCEPT ![t] = Returned("True")]
    /\ UNCHANGED <<AmpliadoState, ObsState, resultado, SmsState, now, refugios, alertas_temperatura, req, sensors,
                   sensors_table, sensor_readings>>

\* _trigger_alert letting the exception of its INSERT reach record_reading,
\* whose own handler returns False.
TriggerAlertFails_Propaga(t) ==
    /\ task[t].pc = "trigger"
    /\ task' = [task EXCEPT ![t] = Returned("False")]
    /\ UNCHANGED <<AmpliadoState, ObsState, resultado, SmsState, now, refugios,
                   alertas_temperatura, req, sensors, sensors_table,
                   sensor_readings, sensor_alerts>>

\* The INSERT of _trigger_alert raises: the exception is logged inside
\* _trigger_alert and record_reading still returns True.
TriggerAlertFails(t) ==
    /\ task[t].pc = "trigger"
    /\ task' = [task EXCEPT ![t] = Returned("True")]
    /\ UNCHANGED <<AmpliadoState, ObsState, resultado, SmsState, now, refugios, alertas_temperatura, req, sensors,
                   sensors_table, sensor_readings, sensor_alerts>>

\* ---------------------------------------------------------- observaciones
\* Ids of the rows of the table sensores, and one id that has no row.
SensoresIds == {"n1"}
UnknownSensorDb == "n9"

\* Values sent as 'valor'.
ObsValores == {41}

\* POST /observaciones -> crear_observacion, up to the awaited
\* insertar_observacion.
HttpCrearObservacion(r, id, valor) ==
    /\ Free(r)
    /\ ReadingsInFlight < MaxReadings
    /\ req' = [req EXCEPT ![r] =
                 [IdleReq EXCEPT !.pc = "svc", !.via = "http",
                     !.op = "insertar_observacion", !.id = id,
                     !.valor = valor]]
    /\ UNCHANGED <<AmpliadoState, ObsState, resultado, SmsState, now, refugios,
                   alertas_temperatura, SensorState>>

\* call_tool branch "insertar_observacion", up to the awaited
\* insertar_observacion.
McpInsertarObservacion(r, id, valor) ==
    /\ Free(r)
    /\ ReadingsInFlight < MaxReadings
    /\ req' = [req EXCEPT ![r] =
                 [IdleReq EXCEPT !.pc = "svc", !.via = "mcp",
                     !.op = "insertar_observacion", !.id = id,
                     !.valor = valor]]
    /\ UNCHANGED <<AmpliadoState, ObsState, resultado, SmsState, now, refugios,
                   alertas_temperatura, SensorState>>

\* insertar_observacion with the foreign key of observaciones.sensor_id
\* left out of the table.
InsertarObservacion_SinFk(r) ==
    /\ req[r].pc = "svc"
    /\ req[r].op = "insertar_observacion"
    /\ observaciones' =
          Append(observaciones,
                 [sensor_id |-> req[r].id, valor |-> req[r].valor,
                  fecha_observacion |-> now])
    /\ req' = [req EXCEPT ![r].pc = "ret", ![r].success = TRUE]
    /\ UNCHANGED <<AmpliadoState, sensores, resultado, SmsState, now, refugios,
                   alertas_temperatura, SensorState>>

\* TimescaleService.insertar_observacion, the awaited execute_command: the
\* database runs INSERT INTO observaciones for a sensor_id that has a row
\* in sensores (observaciones.sensor_id is a foreign key to sensores.id);
\* fecha_observacion defaults to the current time; the method returns True.
InsertarObservacion(r) ==
    /\ req[r].pc = "svc"
    /\ req[r].op = "insertar_observacion"
    /\ req[r].id \in sensores
    /\ observaciones' =
          Append(observaciones,
                 [sensor_id |-> req[r].id, valor |-> req[r].valor,
                  fecha_observacion |-> now])
    /\ req' = [req EXCEPT ![r].pc = "ret", ![r].success = TRUE]
    /\ UNCHANGED <<AmpliadoState, sensores, resultado, SmsState, now, refugios,
                   alertas_temperatura, SensorState>>

\* The INSERT names a sensor_id with no row in sensores: the database
\* refuses it (foreign key violation), execute_command and
\* insertar_observacion re-raise, nothing is written.
InsertarObservacionSinSensor(r) ==
    /\ req[r].pc = "svc"
    /\ req[r].op = "insertar_observacion"
    /\ req[r].id \notin sensores
    /\ req' = [req EXCEPT ![r].pc = "ret", ![r].raised = TRUE]
    /\ UNCHANGED <<AmpliadoState, ObsState, resultado, SmsState, now, refugios,
                   alertas_temperatura, SensorState>>

\* --------------------------------------------------------------- queries
\* No query has been answered yet.
NoResultado == [op |-> "none", args |-> <<>>, rows |-> <<>>, error |-> FALSE]

\* Python's None as the value of a string argument.
None == "None"

\* LIMIT values: a caller's small limit and the default of get_sensor_data.
Limits == {1, 1000}

Min(a, b) == IF a <= b THEN a ELSE b

\* WHERE clause of get_sensor_data: each filter is added only when its
\* argument is given.
Coincide(row, sensor_id, reading_type, start_time, end_time) ==
    /\ sensor_id # None => row.sensor_id = sensor_id
    /\ reading_type # None => row.reading_type = reading_type
    /\ start_time # NULL => row.timestamp >= start_time
    /\ end_time # NULL => row.timestamp <= end_time

\* ORDER BY timestamp DESC over the rows 'ids' of a table: every order of
\* them with non-increasing timestamps (rows of equal timestamp come in
\* any order).
OrdenesDesc(tabla, ids) ==
    {f \in [1 .. Cardinality(ids) -> ids] :
        /\ \A a, b \in 1 .. Cardinality(ids) : a # b => f[a] # f[b]
        /\ \A a \in 1 .. Cardinality(ids) - 1 :
              tabla[f[a]].timestamp >= tabla[f[a + 1]].timestamp}

\* TimescaleClient.get_sensor_data: SELECT ... FROM sensor_readings WHERE
\* ... ORDER BY timestamp DESC LIMIT limit, answered by the database.
GetSensorData(sensor_id, reading_type, start_time, end_time, limit) ==
    /\ LET ids == {j \in DOMAIN sensor_readings :
                     Coincide(sensor_readings[j], sensor_id, reading_type,
                              start_time, end_time)}
       IN \E f \in OrdenesDesc(sensor_readings, ids) :
             resultado' =
                [op |-> "get_sensor_data",
                 args |-> <<sensor_id, reading_type, start_time, end_time,
                            limit>>,
                 rows |-> [k \in 1 .. Min(Cardinality(ids), limit) |->
                             sensor_readings[f[k]]],
                 error |-> FALSE]
    /\ UNCHANGED <<AmpliadoState, ObsState, SmsState, now, refugios, alertas_temperatura,
                   req, SensorState>>

\* The query raises: get_sensor_data logs the error and returns [].
GetSensorDataFails(sensor_id, reading_type, start_time, end_time, limit) ==
    /\ resultado' =
          [op |-> "get_sensor_data",
           args |-> <<sensor_id, reading_type, start_time, end_time, limit>>,
           rows |-> <<>>, error |-> TRUE]
    /\ UNCHANGED <<AmpliadoState, ObsState, SmsState, now, refugios, alertas_temperatura,
                   req, SensorState>>

\* ------------------------------------------------------ nearest shelters
\* Values of refugios.estado_operativo.
EstadosOperativos == {"disponible", "lleno", "cerrado", "mantenimiento"}

\* Distances (km) of a shelter from the point of the query, and the radii
\* asked for.
Distancias == {1, 2}
Radios == {1, 2}

\* ORDER BY distancia_km over the rows 'ids' of refugios: every order of
\* them with non-decreasing distance.
OrdenesDistancia(tabla, ids) ==
    {f \in [1 .. Cardinality(ids) -> ids] :
        /\ \A a, b \in 1 .. Cardinality(ids) : a # b => f[a] # f[b]
        /\ \A a \in 1 .. Cardinality(ids) - 1 :
              tabla[f[a]].distancia_km <= tabla[f[a + 1]].distancia_km}

\* TimescaleService.get_refugios_cercanos: SELECT ... FROM refugios WHERE
\* ST_DWithin(geom, point, radio_km * 1000) [AND capacidad_actual <
\* capacidad_maxima] ORDER BY distancia_km, answered by the database.
GetRefugiosCercanos(radio_km, incluir_llenos) ==
    /\ LET ids == {id \in DOMAIN refugios :
                     /\ refugios[id].distancia_km <= radio_km
                     /\ ~incluir_llenos =>
                           refugios[id].capacidad_actual <
                              refugios[id].capacidad_maxima}
       IN \E f \in OrdenesDistancia(refugios, ids) :
             resultado' =
                [op |-> "get_refugios_cercanos",
                 args |-> <<radio_km, incluir_llenos>>,
                 rows |-> [k \in 1 .. Cardinality(ids) |->
                             [id |-> f[k],
                              estado_operativo |->
                                 refugios[f[k]].estado_operativo,
                              capacidad_maxima |->
                                 refugios[f[k]].capacidad_maxima,
                              capacidad_actual |->
                                 refugios[f[k]].capacidad_actual,
                              distancia_km |-> refugios[f[k]].distancia_km]],
                 error |-> FALSE]
    /\ UNCHANGED <<AmpliadoState, ObsState, SmsState, now, refugios, alertas_temperatura,
                   req, SensorState>>

\* execute_query raises: get_refugios_cercanos logs and re-raises, the
\* caller gets no rows.
GetRefugiosCercanosRaises(radio_km, incluir_llenos) ==
    /\ resultado' =
          [op |-> "get_refugios_cercanos",
           args |-> <<radio_km, incluir_llenos>>, rows |-> <<>>,
           error |-> TRUE]
    /\ UNCHANGED <<AmpliadoState, ObsState, SmsState, now, refugios, alertas_temperatura,
                   req, SensorState>>

\* --------------------------------------------------------- TwilioService
\* send_sms_bulk calls that may be in flight at the same time.
BulkCalls == {1, 2}

IdleBulk ==
    [pc |-> "idle", max_concurrent |-> 0, semaphore |-> 0, envios |-> <<>>]

\* Values callers pass as max_concurrent: one below the number of
\* recipients, and the default.
MaxConcurrents == {2, 5}

\* How a call of client.messages.create ends: with a message sid, with an
\* error that a later attempt could get past (time-out, rate limit,
\* gateway 5xx) or with one it could not (invalid number, rejected
\* credentials). Both errors are a TwilioException or another Exception.
Outcomes == {"sid", "transient", "permanent"}

\* A send_with_semaphore task that has not acquired the semaphore yet.
PendingEnvio ==
    [status |-> "pending", sid |-> "none", error |-> "none", creates |-> 0]

\* send_sms_bulk for n recipients: the semaphore is created with
\* max_concurrent permits and gather starts one task per recipient.
SendSmsBulk(c, n, max_concurrent) ==
    /\ bulk[c].pc \in {"idle", "returned"}
    /\ bulk' = [bulk EXCEPT ![c] =
                  [pc |-> "gather", max_concurrent |-> max_concurrent,
                   semaphore |-> max_concurrent,
                   envios |-> [i \in 1 .. n |-> PendingEnvio]]]
    /\ UNCHANGED <<AmpliadoState, ObsState, resultado, twilio_enabled, now, refugios,
                   alertas_temperatura, req, SensorState>>

\* The next waiting task (asyncio wakes waiters in order) may pass.
Turno(c, i) ==
    /\ bulk[c].pc = "gather"
    /\ i \in DOMAIN bulk[c].envios
    /\ bulk[c].envios[i].status = "pending"
    /\ \A j \in 1 .. i - 1 : bulk[c].envios[j].status # "pending"

\* send_with_semaphore entering 'async with semaphore' whatever the number
\* of permits left.
AcquireSemaphore_SinLimite(c, i) ==
    /\ Turno(c, i)
    /\ twilio_enabled
    /\ bulk' = [bulk EXCEPT
                  ![c].semaphore = @ - 1,
                  ![c].envios[i] =
                     [PendingEnvio EXCEPT !.status = "sending",
                                          !.creates = 1]]
    /\ UNCHANGED <<AmpliadoState, ObsState, resultado, twilio_enabled, now, refugios,
                   alertas_temperatura, req, SensorState>>

\* send_with_semaphore acquires a permit and send_sms hands
\* client.messages.create to the executor and awaits it.
AcquireSemaphore(c, i) ==
    /\ Turno(c, i)
    /\ bulk[c].semaphore > 0
    /\ twilio_enabled
    /\ bulk' = [bulk EXCEPT
                  ![c].semaphore = @ - 1,
                  ![c].envios[i] =
                     [PendingEnvio EXCEPT !.status = "sending",
                                          !.creates = 1]]
    /\ UNCHANGED <<AmpliadoState, ObsState, resultado, twilio_enabled, now, refugios,
                   alertas_temperatura, req, SensorState>>

\* Twilio is not configured: send_sms returns a simulated sid without
\* awaiting anything, so the permit is taken and given back in one step.
SendSmsSimulado(c, i) ==
    /\ Turno(c, i)
    /\ bulk[c].semaphore > 0
    /\ ~twilio_enabled
    /\ bulk' = [bulk EXCEPT
                  ![c].envios[i] =
                     [PendingEnvio EXCEPT !.status = "done", !.sid = "sim"]]
    /\ UNCHANGED <<AmpliadoState, ObsState, resultado, twilio_enabled, now, refugios,
                   alertas_temperatura, req, SensorState>>

\* client.messages.create ends: send_sms returns the sid, or logs the
\* exception and returns None; the permit is released.
SendSmsCompleta(c, i, outcome) ==
    /\ bulk[c].pc = "gather"
    /\ i \in DOMAIN bulk[c].envios
    /\ bulk[c].envios[i].status = "sending"
    /\ bulk' = [bulk EXCEPT
                  ![c].semaphore = @ + 1,
                  ![c].envios[i] =
                     [@ EXCEPT !.status = "done",
                               !.sid = IF outcome = "sid" THEN "sid"
                                       ELSE "None",
                               !.error = IF outcome = "sid" THEN "none"
                                         ELSE outcome]]
    /\ UNCHANGED <<AmpliadoState, ObsState, resultado, twilio_enabled, now, refugios,
                   alertas_temperatura, req, SensorState>>

\* gather has every result: send_sms_bulk returns number -> sid.
SendSmsBulkReturns(c) ==
    /\ bulk[c].pc = "gather"
    /\ \A i \in DOMAIN bulk[c].envios : bulk[c].envios[i].status = "done"
    /\ bulk' = [bulk EXCEPT ![c].pc = "returned"]
    /\ UNCHANGED <<AmpliadoState, ObsState, resultado, twilio_enabled, now, refugios,
                   alertas_temperatura, req, SensorState>>

\* --------------------------------------------------- alert SMS handlers
\* Concurrent enviar_sms_alerta handlers (HTTP route / MCP tool).
Envios == {1, 2}

IdleEnvio ==
    [pc |-> "idle", via |-> "none", id |-> "none", entrada |-> 0,
     sms_id |-> "None", response |-> "none"]

EnvioLibre(e) == envio[e].pc \in {"idle", "done"}

\* Handlers that may still hand a body to the gateway.
EnviosPendientes ==
    Cardinality({e \in Envios :
                    envio[e].pc \in {"get_alertas", "send", "background"}})

\* POST /alertas/{alerta_id}/enviar-sms: the handler first awaits
\* get_alertas_activas.
HttpEnviarSmsAlerta(e, id) ==
    /\ EnvioLibre(e)
    /\ Len(gateway) + EnviosPendientes < MaxSends
    /\ envio' = [envio EXCEPT ![e] =
                   [IdleEnvio EXCEPT !.pc = "get_alertas", !.via = "http",
                       !.id = id]]
    /\ UNCHANGED <<FueraDeEnvio, gateway, ObsState, resultado, SmsState, now, refugios,
                   alertas_temperatura, req, SensorState>>

\* call_tool branch "enviar_sms_alerta".
McpEnviarSmsAlerta(e, id) ==
    /\ EnvioLibre(e)
    /\ Len(gateway) + EnviosPendientes < MaxSends
    /\ envio' = [envio EXCEPT ![e] =
                   [IdleEnvio EXCEPT !.pc = "get_alertas", !.via = "mcp",
                       !.id = id]]
    /\ UNCHANGED <<FueraDeEnvio, gateway, ObsState, resultado, SmsState, now, refugios,
                   alertas_temperatura, req, SensorState>>

\* SELECT ... FROM alertas_temperatura a ... WHERE a.estado = 'activa':
\* the ids of the rows returned.
GetAlertasActivas(tabla) == {id \in DOMAIN tabla : tabla[id].estado = "activa"}

\* The handler after get_alertas_activas returned: "alerta = next(a for a
\* in alertas if a['id'] == alerta_id, None)". Without the alert the HTTP
\* handler answers 404 and the tool the not-found text. With it the HTTP
\* handler adds twilio_service.send_sms to background_tasks (the injected
\* BackgroundTasks object is truthy) and answers "SMS programado"; the
\* tool goes on to await send_alert_sms.
BuscaAlerta(e) ==
    /\ envio[e].pc = "get_alertas"
    /\ LET encontrada == envio[e].id \in GetAlertasActivas(alertas_temperatura)
       IN  envio' = [envio EXCEPT ![e] =
              IF envio[e].via = "http"
              THEN IF encontrada
                   THEN [@ EXCEPT !.pc = "background", !.response = "200"]
                   ELSE [@ EXCEPT !.pc = "done", !.response = "404"]
              ELSE IF encontrada
                   THEN [@ EXCEPT !.pc = "send"]
                   ELSE [@ EXCEPT !.pc = "done",
                                  !.response = "mcp_no_encontrada"]]
    /\ UNCHANGED <<FueraDeEnvio, gateway, ObsState, resultado, SmsState, now, refugios,
                   alertas_temperatura, req, SensorState>>

\* get_alertas_activas re-raises the exception of execute_query: the HTTP
\* handler answers 500, the tool the text of its outer except.
GetAlertasActivasRaises(e) ==
    /\ envio[e].pc = "get_alertas"
    /\ envio' = [envio EXCEPT ![e].pc = "done",
                    ![e].response = IF envio[e].via = "http" THEN "500"
                                    ELSE "mcp_error"]
    /\ UNCHANGED <<FueraDeEnvio, gateway, ObsState, resultado, SmsState, now, refugios,
                   alertas_temperatura, req, SensorState>>

\* TwilioService.send_sms without credentials: "if not self.enabled" logs
\* the message and returns a simulated sid; nothing reaches the gateway.
SendSmsSinCredenciales(e) ==
    /\ envio[e].pc \in {"send", "background"}
    /\ ~twilio_enabled
    /\ envio' = [envio EXCEPT ![e] =
                   [@ EXCEPT !.pc = "done", !.sms_id = "sim",
                       !.response = IF envio[e].via = "mcp" THEN "mcp_ok"
                                    ELSE @]]
    /\ UNCHANGED <<FueraDeEnvio, gateway, ObsState, resultado, SmsState, now, refugios,
                   alertas_temperatura, req, SensorState>>

\* TwilioService.send_sms with credentials, up to the await of
\* run_in_executor: the rendered alert text is handed to
\* client.messages.create. Neither the HTTP background task nor
\* send_alert_sms reads the alert again before that.
EntregaAlGateway(e) ==
    /\ envio[e].pc \in {"send", "background"}
    /\ twilio_enabled
    /\ gateway' = Append(gateway, [alerta_id |-> envio[e].id,
                                   body |-> "alerta", status |-> "pending"])
    /\ envio' = [envio EXCEPT ![e].pc = "executor",
                              ![e].entrada = Len(gateway) + 1]
    /\ UNCHANGED <<FueraDeEnvio, ObsState, resultado, SmsState, now, refugios,
                   alertas_temperatura, req, SensorState>>

\* client.messages.create returns a sid or raises; send_sms returns the sid
\* or None. The tool answers the success text "if sms_id", else the error
\* text; the HTTP response was sent before the background task ran. No
\* statement of either handler, nor of TwilioService, writes
\* alertas_temperatura.
MessagesCreate(e, outcome) ==
    /\ envio[e].pc = "executor"
    /\ gateway' = [gateway EXCEPT ![envio[e].entrada].status =
                      IF outcome = "sid" THEN "accepted" ELSE "error"]
    /\ envio' = [envio EXCEPT ![e] =
                   [@ EXCEPT !.pc = "done",
                       !.sms_id = IF outcome = "sid" THEN "sid" ELSE "None",
                       !.response = IF envio[e].via = "mcp"
                                    THEN IF outcome = "sid" THEN "mcp_ok"
                                         ELSE "mcp_fail"
                                    ELSE @]]
    /\ UNCHANGED <<FueraDeEnvio, ObsState, resultado, SmsState, now, refugios,
                   alertas_temperatura, req, SensorState>>

\* ------------------------------------------------------- message bodies
\* TwilioService.send_sms: "if len(message) > 1600".
MaxLongitud == 1600
\* "message[:1550]"
Corte == 1550
\* len("... [TRUNCADO]")
Sufijo == 14

\* Lengths of the messages callers supply.
Longitudes == {1, Corte, MaxLongitud, MaxLongitud + 1, 2 * MaxLongitud}

\* Length of the body TwilioService.send_sms passes to messages.create for
\* a message of length n.
Truncar(n) == IF n > MaxLongitud THEN Corte + Sufijo ELSE n

\* TwilioService.send_sms(to_number, message) with credentials: the message
\* is truncated and handed to client.messages.create.
SendSms(n) ==
    /\ twilio_enabled
    /\ Len(gateway) < MaxSends
    /\ gateway' = Append(gateway, [alerta_id |-> "none", body |-> Truncar(n),
                                   status |-> "pending"])
    /\ resultado' = [op |-> "send_sms", args |-> <<n>>, rows |-> <<>>,
                     error |-> FALSE]
    /\ UNCHANGED <<FueraDeEnvio, envio, ObsState, SmsState, now, refugios,
                   alertas_temperatura, req, SensorState>>

\* TwilioService.send_sms without credentials returns a simulated sid.
SendSmsSimula(n) ==
    /\ ~twilio_enabled
    /\ resultado' = [op |-> "send_sms", args |-> <<n>>, rows |-> <<"sim">>,
                     error |-> FALSE]
    /\ UNCHANGED <<FueraDeEnvio, EnvioState, ObsState, SmsState, now, refugios,
                   alertas_temperatura, req, SensorState>>

\* POST /alerts/sms with Twilio configured: the handler queues
\* twilio_notifier.send_sms(alert.phone_number, alert.message) and answers;
\* the background task passes the message to client.messages.create as it
\* came (AlertRequest.message is a plain str).
PostAlertsSms(n) ==
    /\ twilio_enabled
    /\ Len(gateway) < MaxSends
    /\ gateway' = Append(gateway, [alerta_id |-> "none", body |-> n,
                                   status |-> "pending"])
    /\ resultado' = [op |-> "alerts_sms", args |-> <<n>>, rows |-> <<"200">>,
                     error |-> FALSE]
    /\ UNCHANGED <<FueraDeEnvio, envio, ObsState, SmsState, now, refugios,
                   alertas_temperatura, req, SensorState>>

\* POST /alerts/sms without configuration: the HTTPException(503) is raised
\* inside the try and caught by "except Exception", which answers 500.
PostAlertsSmsSinConfigurar(n) ==
    /\ ~twilio_enabled
    /\ resultado' = [op |-> "alerts_sms", args |-> <<n>>, rows |-> <<"500">>,
                     error |-> TRUE]
    /\ UNCHANGED <<FueraDeEnvio, EnvioState, ObsState, SmsState, now, refugios,
                   alertas_temperatura, req, SensorState>>

\* client.messages.create ends for the i-th body handed over.
CreateTermina(i, outcome) ==
    /\ i \in DOMAIN gateway
    /\ gateway[i].status = "pending"
    /\ gateway' = [gateway EXCEPT ![i].status =
                      IF outcome = "sid" THEN "accepted" ELSE "error"]
    /\ UNCHANGED <<FueraDeEnvio, envio, ObsState, resultado, SmsState, now, refugios,
                   alertas_temperatura, req, SensorState>>

\* --------------------------------------------------- evacuation planner
\* Nodes of the road graph.
Nodos == {1, 2, 3}

\* Edge costs, in thousandths of a minute. All are even, so that no sum of
\* them lies half-way between two hundredths, where round() depends on
\* the binary representation of the float.
Costes == {4, 1000}

\* The road graphs considered: edge 1 (1 -> 2) is always there, edge 2
\* (2 -> 3) and edge 3 (1 -> 3) may be missing; edges are one-way.
Arista(edge_id, source, target, cost) ==
    [edge_id |-> edge_id, source |-> source, target |-> target, cost |-> cost]

Redes ==
    {{Arista(1, 1, 2, c1)} \cup x2 \cup x3 :
        c1 \in Costes,
        x2 \in {{}} \cup {{Arista(2, 2, 3, c)} : c \in Costes},
        x3 \in {{}} \cup {{Arista(3, 1, 3, c)} : c \in Costes}}

\* How the database function calcular_ruta_refugio reports that there is
\* no path: with an empty result set or with an exception.
SinRuta == {"vacia", "excepcion"}

RECURSIVE SumaCostes(_)
\* sum(segmento['cost'] for segmento in ruta)
SumaCostes(ruta) ==
    IF ruta = <<>> THEN 0
    ELSE ruta[1].cost + SumaCostes(Tail(ruta))

\* The paths of at most two edges from src to dst in a graph.
Caminos(aristas, src, dst) ==
    {<<a>> : a \in {x \in aristas : x.source = src /\ x.target = dst}}
    \cup {p \in {<<a, b>> : a \in aristas, b \in aristas} :
             /\ p[1].source = src
             /\ p[1].target = p[2].source
             /\ p[2].target = dst}

\* shortest_path(src, dst): the steps of a minimum-cost path, ties broken
\* by ascending edge_id; zero steps from a node to itself.
ShortestPath(aristas, src, dst) ==
    IF src = dst THEN [nopath |-> FALSE, rows |-> <<>>]
    ELSE LET cs == Caminos(aristas, src, dst)
             mejores == {p \in cs : \A q \in cs : SumaCostes(p) <= SumaCostes(q)}
         IN  IF cs = {} THEN [nopath |-> TRUE, rows |-> <<>>]
             ELSE LET p == CHOOSE x \in mejores :
                              \A y \in mejores : x[1].edge_id <= y[1].edge_id
                  IN  [nopath |-> FALSE,
                       rows |-> [i \in 1 .. Len(p) |->
                                   [step_seq |-> i, edge_id |-> p[i].edge_id,
                                    cost |-> p[i].cost]]]

\* SELECT ... FROM calcular_ruta_refugio(lat, lon, refugio_id): the point
\* of the sensor is snapped to its node, the shelter is looked up by id
\* and snapped, and the shortest path between the two nodes is returned. A
\* shelter id without a row gives no destination node, hence no path.
DbCalcularRutaRefugio(nodo_sensor, refugio_id) ==
    IF refugio_id \notin DOMAIN refugios
    THEN [nopath |-> TRUE, rows |-> <<>>]
    ELSE ShortestPath(red.aristas, nodo_sensor, red.refugio_nodo[refugio_id])

\* TimescaleService.calcular_ruta_refugio: ValueError when the sensor has
\* no row, else the rows of the database function; every exception is
\* logged and raised again.
CalcularRutaRefugio(sensor_id, refugio_id) ==
    IF sensor_id \notin sensores
    THEN [raised |-> "sensor_no_encontrado", rows |-> <<>>]
    ELSE LET r == DbCalcularRutaRefugio(red.sensor_nodo[sensor_id], refugio_id)
         IN  IF r.nopath /\ red.sin_ruta = "excepcion"
             THEN [raised |-> "NoPath", rows |-> <<>>]
             ELSE [raised |-> "None", rows |-> r.rows]

\* round(x, 2) of a non-negative x given in thousandths, cut instead of
\* rounded.
Round2_Trunca(x) == (x \div 10) * 10

\* round(x, 2) of a non-negative x given in thousandths that is not
\* half-way between two hundredths.
Round2(x) == ((x + 5) \div 10) * 10

\* The answer of a failed route request: no totals.
RutaFallida(via, sensor_id, refugio_id, status, detail) ==
    [op |-> "ruta", via |-> via, args |-> <<sensor_id, refugio_id>>,
     rows |-> <<>>, error |-> TRUE, status |-> status, detail |-> detail,
     distancia_total_minutos |-> 0, tiempo_estimado_minutos |-> 0,
     num_segmentos |-> 0]

\* GET /rutas/refugio/{sensor_id}/{refugio_id}: an exception of the
\* service answers 500 with its text, "if not ruta" answers 404; else the
\* total is the sum of the costs, the estimated time is the total, and
\* both are rounded to two decimals in the response. The features keep the
\* costs as they came.
HttpCalcularRuta(sensor_id, refugio_id) ==
    /\ LET r == CalcularRutaRefugio(sensor_id, refugio_id)
           distancia_total == SumaCostes(r.rows)
           tiempo_estimado == distancia_total
       IN  resultado' =
              IF r.raised # "None"
              THEN RutaFallida("http", sensor_id, refugio_id, "500", r.raised)
              ELSE IF r.rows = <<>>
              THEN RutaFallida("http", sensor_id, refugio_id, "404",
                               "no_se_pudo_calcular")
              ELSE [op |-> "ruta", via |-> "http",
                    args |-> <<sensor_id, refugio_id>>, rows |-> r.rows,
                    error |-> FALSE, status |-> "200", detail |-> "None",
                    distancia_total_minutos |-> Round2(distancia_total),
                    tiempo_estimado_minutos |-> Round2(tiempo_estimado),
                    num_segmentos |-> Len(r.rows)]
    /\ UNCHANGED <<FueraDeRuta, red, ObsState, SmsState, now, refugios,
                   alertas_temperatura, req, SensorState>>

\* call_tool branch "calcular_ruta_refugio": the outer except answers the
\* error text, "if not ruta" the could-not-compute text; else the text
\* gives the total with two decimals and the number of segments, and no
\* estimated time (NULL here).
McpCalcularRuta(sensor_id, refugio_id) ==
    /\ LET r == CalcularRutaRefugio(sensor_id, refugio_id)
           distancia_total == SumaCostes(r.rows)
       IN  resultado' =
              IF r.raised # "None"
              THEN RutaFallida("mcp", sensor_id, refugio_id, "mcp_error",
                               r.raised)
              ELSE IF r.rows = <<>>
              THEN RutaFallida("mcp", sensor_id, refugio_id, "mcp_fail",
                               "no_se_pudo_calcular")
              ELSE [op |-> "ruta", via |-> "mcp",
                    args |-> <<sensor_id, refugio_id>>, rows |-> r.rows,
                    error |-> FALSE, status |-> "mcp_ok", detail |-> "None",
                    distancia_total_minutos |-> Round2(distancia_total),
                    tiempo_estimado_minutos |-> NULL,
                    num_segmentos |-> Len(r.rows)]
    /\ UNCHANGED <<FueraDeRuta, red, ObsState, SmsState, now, refugios,
                   alertas_temperatura, req, SensorState>>

\* No road graph loaded.
RedVacia == [aristas |-> {}, sensor_nodo |-> <<>>, refugio_nodo |-> <<>>,
             sin_ruta |-> "vacia"]

InitRed ==
    /\ red = RedVacia

\* ------------------------------------------------------------ simulation
\* Concurrent handlers of POST /simulation/start and /simulation/stop.
SimReqs == {1, 2}

IdleSimReq == [pc |-> "idle", op |-> "none", espera |-> 0]

\* A task just made by asyncio.create_task(self._simulation_loop()): its
\* coroutine has not run yet and no cancellation was requested.
NuevoLoop == [pc |-> "created", must_cancel |-> FALSE]

\* start_simulation without its "if self.simulation_running: return".
StartSimulation_SinGuarda(h) ==
    /\ sim_req[h].pc \in {"idle", "done"}
    /\ Len(loops) < MaxLoops
    /\ simulation_running' = TRUE
    /\ loops' = Append(loops, NuevoLoop)
    /\ simulation_task' = Len(loops) + 1
    /\ sim_req' = [sim_req EXCEPT ![h] =
                     [pc |-> "done", op |-> "start", espera |-> 0]]
    /\ UNCHANGED <<FueraDeSim, ObsState, resultado, SmsState, now, refugios,
                   alertas_temperatura, req, SensorState>>

\* POST /simulation/start -> start_simulation, which has no await: when
\* the flag is set it returns at once, else it sets the flag and stores
\* the task it creates. The handler answers "Simulación iniciada" either
\* way.
StartSimulation(h) ==
    /\ sim_req[h].pc \in {"idle", "done"}
    /\ Len(loops) < MaxLoops
    /\ IF simulation_running
       THEN UNCHANGED <<simulation_running, loops, simulation_task>>
       ELSE /\ simulation_running' = TRUE
            /\ loops' = Append(loops, NuevoLoop)
            /\ simulation_task' = Len(loops) + 1
    /\ sim_req' = [sim_req EXCEPT ![h] =
                     [pc |-> "done", op |-> "start", espera |-> 0]]
    /\ UNCHANGED <<FueraDeSim, ObsState, resultado, SmsState, now, refugios,
                   alertas_temperatura, req, SensorState>>

\* POST /simulation/stop -> stop_simulation up to "await
\* self.simulation_task": the flag is cleared and the stored task, if any,
\* is asked to cancel. cancel() on a finished task does nothing; on a
\* running one it makes the task's next step raise CancelledError.
StopSimulation(h) ==
    /\ sim_req[h].pc \in {"idle", "done"}
    /\ simulation_running' = FALSE
    /\ IF simulation_task = 0
       THEN /\ sim_req' = [sim_req EXCEPT ![h] =
                             [pc |-> "done", op |-> "stop", espera |-> 0]]
            /\ UNCHANGED loops
       ELSE /\ sim_req' = [sim_req EXCEPT ![h] =
                             [pc |-> "await", op |-> "stop",
                              espera |-> simulation_task]]
            /\ loops' = [loops EXCEPT ![simulation_task].must_cancel =
                            (loops[simulation_task].pc # "done")]
    /\ UNCHANGED <<FueraDeSim, simulation_task, ObsState, resultado, SmsState,
                   now, refugios, alertas_temperatura, req, SensorState>>

\* stop_simulation resumes when the task it awaits has finished.
StopSimulationTermina(h) ==
    /\ sim_req[h].pc = "await"
    /\ loops[sim_req[h].espera].pc = "done"
    /\ sim_req' = [sim_req EXCEPT ![h].pc = "done"]
    /\ UNCHANGED <<FueraDeSim, simulation_running, simulation_task, loops,
                   ObsState, resultado, SmsState, now, refugios,
                   alertas_temperatura, req, SensorState>>

\* A step of _simulation_loop at "while self.simulation_running": the
\* first step of the task, or the one after asyncio.sleep returned. With
\* the flag set it starts a round (gather of one _simulate_sensor_reading
\* per active sensor), else it leaves the loop and the task finishes.
LoopIteracion(i) ==
    /\ i \in DOMAIN loops
    /\ loops[i].pc \in {"created", "sleep"}
    /\ ~loops[i].must_cancel
    /\ loops' = [loops EXCEPT ![i].pc =
                    IF simulation_running THEN "gather" ELSE "done"]
    /\ UNCHANGED <<FueraDeSim, simulation_running, simulation_task, sim_req,
                   ObsState, resultado, SmsState, now, refugios,
                   alertas_temperatura, req, SensorState>>

\* The gather of the round's readings returns and the loop awaits
\* asyncio.sleep(simulation_interval).
GatherTermina(i) ==
    /\ i \in DOMAIN loops
    /\ loops[i].pc = "gather"
    /\ ~loops[i].must_cancel
    /\ loops' = [loops EXCEPT ![i].pc = "sleep"]
    /\ UNCHANGED <<FueraDeSim, simulation_running, simulation_task, sim_req,
                   ObsState, resultado, SmsState, now, refugios,
                   alertas_temperatura, req, SensorState>>

\* The event loop runs a task that was asked to cancel: CancelledError is
\* raised at its await (and caught by the loop's except) or, for a task
\* that never ran, instead of its first step. The task finishes.
LoopCancelado(i) ==
    /\ i \in DOMAIN loops
    /\ loops[i].must_cancel
    /\ loops[i].pc # "done"
    /\ loops' = [loops EXCEPT ![i] = [pc |-> "done", must_cancel |-> FALSE]]
    /\ UNCHANGED <<FueraDeSim, simulation_running, simulation_task, sim_req,
                   ObsState, resultado, SmsState, now, refugios,
                   alertas_temperatura, req, SensorState>>

\* SensorService.__init__: no simulation.
InitSim ==
    /\ simulation_running = FALSE
    /\ simulation_task = 0
    /\ loops = <<>>
    /\ sim_req = [h \in SimReqs |-> IdleSimReq]

\* No alert SMS handler has run and nothing was handed to the gateway.
InitEnvio ==
    /\ envio = [e \in Envios |-> IdleEnvio]
    /\ gateway = <<>>

\* ------------------------------------------------------- server manager
\* The names of the servers of ServerManager.__init__, in its order.
Servidores == <<"RAG", "Maps", "GIS">>

ServerConfig(name, critical) == [name |-> name, critical |-> critical]

\* server_configs as __init__ writes it: RAG is critical, Maps and GIS are
\* not.
ServerConfigsPorDefecto ==
    [i \in 1 .. Len(Servidores) |->
        ServerConfig(Servidores[i], Servidores[i] = "RAG")]

\* The servers of __init__ with any of them left out and each one marked
\* critical or not.
ServerConfigsPosibles ==
    {SelectSeq([i \in 1 .. Len(Servidores) |->
                   ServerConfig(Servidores[i], crit[i])],
               LAMBDA c : c.name \in elegidos) :
        elegidos \in SUBSET {Servidores[i] : i \in 1 .. Len(Servidores)},
        crit \in [1 .. Len(Servidores) -> BOOLEAN]}

IdleRun == [pc |-> "idle", salida |-> "none"]

\* ServerManager.run() is called: the try block is entered.
Run ==
    /\ run.pc = "idle"
    /\ run' = [run EXCEPT !.pc = "validar"]
    /\ UNCHANGED <<FueraDeMgr, ObsState, resultado, SmsState, SensorState,
                   now, refugios, alertas_temperatura, req, server_configs,
                   fallan, processes, running>>

\* _validate_server_modules with a server configured: the first pass of its
\* loop evaluates  project_root / "src/..." + ".py",  a PosixPath plus a
\* str, which raises TypeError before the file system is asked anything.
\* run() catches it in `except Exception`.
ValidateServerModulesRaises ==
    /\ run.pc = "validar"
    /\ server_configs # <<>>
    /\ run' = [run EXCEPT !.pc = "except"]
    /\ UNCHANGED <<FueraDeMgr, ObsState, resultado, SmsState, SensorState,
                   now, refugios, alertas_temperatura, req, server_configs,
                   fallan, processes, running>>

\* run() with no server configured: validation returns an empty list, the
\* signal handlers are installed, the start loop has nothing to start and
\* run returns at `successful_starts == 0`, through the finally block.
RunSinServidores ==
    /\ run.pc = "validar"
    /\ server_configs = <<>>
    /\ run' = [pc |-> "finally", salida |-> "returned"]
    /\ UNCHANGED <<FueraDeMgr, ObsState, resultado, SmsState, SensorState,
                   now, refugios, alertas_temperatura, req, server_configs,
                   fallan, processes, running>>

\* stop_all_servers: with no process it returns at once; otherwise every
\* process is terminated, the table is cleared and running is reset.
StopAllServers ==
    IF processes = {}
    THEN UNCHANGED <<processes, running>>
    ELSE /\ processes' = {}
         /\ running' = FALSE

\* The except block of run(): stop_all_servers(), then the exception is
\* raised again once the finally block has run.
RunExcept ==
    /\ run.pc = "except"
    /\ StopAllServers
    /\ run' = [pc |-> "finally", salida |-> "raised"]
    /\ UNCHANGED <<FueraDeMgr, ObsState, resultado, SmsState, SensorState,
                   now, refugios, alertas_temperatura, req, server_configs,
                   fallan>>

\* The finally block of run(): stop_all_servers() if a process is left;
\* then run() returns or raises.
RunFinally ==
    /\ run.pc = "finally"
    /\ StopAllServers
    /\ run' = [run EXCEPT !.pc = "fin"]
    /\ UNCHANGED <<FueraDeMgr, ObsState, resultado, SmsState, SensorState,
                   now, refugios, alertas_temperatura, req, server_configs,
                   fallan>>

\* A ServerManager as __init__ leaves it, every server able to start.
InitMgr ==
    /\ server_configs = ServerConfigsPorDefecto
    /\ fallan = {}
    /\ processes = {}
    /\ running = FALSE
    /\ run = IdleRun

InitAmpliado ==
    /\ InitEnvio
    /\ InitRed
    /\ InitSim
    /\ InitMgr

\* ------------------------------------------------- shelter specification
RefugioRow(max, actual) ==
    [capacidad_maxima |-> max, capacidad_actual |-> actual]

InitCommon ==
    /\ now = 0
    /\ req = [r \in Reqs |-> IdleReq]
    /\ sensors = <<>>
    /\ sensors_table = <<>>
    /\ sensor_readings = <<>>
    /\ sensor_alerts = <<>>
    /\ task = [t \in Tasks |-> IdleTask]

\* The observation store is empty, no query was made, no SMS call is in
\* flight and TwilioService found no credentials.
InitResto ==
    /\ sensores = {}
    /\ observaciones = <<>>
    /\ resultado = NoResultado
    /\ bulk = [c \in BulkCalls |-> IdleBulk]
    /\ twilio_enabled = FALSE
    /\ InitAmpliado

\* Shelter rows as loaded by the deployment: r1 holds up to MaxCap people,
\* r2 one person, each with an occupancy inside its range.
InitRefugios ==
    /\ InitCommon
    /\ InitResto
    /\ \E a1 \in 0 .. MaxCap, a2 \in 0 .. 1 :
          refugios = [id \in RefugioIds |->
                        IF id = "r1" THEN RefugioRow(MaxCap, a1)
                        ELSE RefugioRow(1, a2)]
    /\ alertas_temperatura = <<>>

NextRefugios ==
    \E r \in Reqs :
       \/ \E id \in RefugioIds \cup {UnknownRefugio}, nueva \in Capacidades :
             \/ HttpActualizarCapacidad(r, id, nueva)
             \/ McpActualizarCapacidad(r, id, nueva)
             \/ McpSchemaRejects(r, id, nueva)
       \/ ActualizarCapacidadRefugio(r)
       \/ ExecuteCommandRaises(r)
       \/ RouterResponde(r)
       \/ McpResponde(r)

SpecRefugios == InitRefugios /\ [][NextRefugios]_vars

\* --------------------------------------------------- alert specification
AlertaRow(estado) ==
    [estado |-> estado, sms_enviado |-> FALSE, fecha_deteccion |-> 0,
     fecha_resolucion |-> IF estado = "resuelta" THEN 0 ELSE NULL,
     personal_notificado |-> <<>>]

\* Alert rows found at start-up, in any of the states the column documents.
InitAlertas ==
    /\ InitCommon
    /\ InitResto
    /\ refugios = <<>>
    /\ alertas_temperatura \in
          {[id \in AlertaIds |-> AlertaRow(f[id])] : f \in [AlertaIds -> Estados]}

NextAlertas ==
    \/ \E r \in Reqs :
          \/ \E id \in AlertaIds \cup {UnknownAlerta} :
                \/ HttpResolverAlerta(r, id)
                \/ McpResolverAlerta(r, id)
          \/ ResolverAlerta(r)
          \/ ExecuteCommandRaises(r)
          \/ RouterResponde(r)
          \/ McpResponde(r)
    \/ Tick

SpecAlertas == InitAlertas /\ [][NextAlertas]_vars

\* -------------------------------------------------- sensor specification
\* SensorService after construction: no sensor in memory, empty tables.
Init ==
    /\ InitCommon
    /\ InitResto
    /\ refugios = <<>>
    /\ alertas_temperatura = <<>>

Next ==
    \E t \in Tasks :
       \/ \E s \in SensorIds : RegisterSensor(t, s)
       \/ \E info \in SensorInfos : UpsertSensor(t, info)
       \/ UpsertSensorRaises(t)
       \/ \E info \in SensorInfos : RegisterSensorMemoria(t, info)
       \/ \E s \in SensorIds \cup {UnknownSensor}, in \in ReadingInputs :
             RecordReading(t, s, in[1], in[2])
       \/ InsertSensorReading(t)
       \/ InsertSensorReadingFails(t)
       \/ CheckAlertsStep(t)
       \/ TriggerAlert(t)
       \/ TriggerAlertFails(t)

Spec == Init /\ [][Next]_vars

\* ------------------------------------------------ readings specification
\* (reading_type, value) pairs sent to sensors that are already registered:
\* a temperature well inside its thresholds and one above 'max'.
LecturasInputs == {<<"temperature", 20>>, <<"temperature", 46>>}

\* SensorService after initialize(): _load_sensors_from_db has put every
\* active row of the table sensors in self.sensors; no reading is stored.
InitLecturas ==
    /\ now = 0
    /\ req = [r \in Reqs |-> IdleReq]
    /\ \E info \in SensorInfos :
          /\ sensors_table = [s \in SensorIds |-> info]
          /\ sensors = [s \in SensorIds |-> info]
    /\ sensor_readings = <<>>
    /\ sensor_alerts = <<>>
    /\ task = [t \in Tasks |-> IdleTask]
    /\ refugios = <<>>
    /\ alertas_temperatura = <<>>
    /\ InitResto

\* The steps a record_reading coroutine takes once it was called: each is
\* the completion of the database statement it awaits.
PasoLectura(t) ==
    \/ InsertSensorReading(t)
    \/ InsertSensorReadingFails(t)
    \/ CheckAlertsStep(t)
    \/ TriggerAlert(t)
    \/ TriggerAlertFails(t)

NextLecturas ==
    \/ \E t \in Tasks :
          \/ \E s \in SensorIds, in \in LecturasInputs :
                RecordReading(t, s, in[1], in[2])
          \/ PasoLectura(t)
    \/ Tick

SpecLecturas == InitLecturas /\ [][NextLecturas]_vars

\* The event loop resumes every coroutine whose awaited statement has
\* completed, the database completes every statement (with a result or an
\* error), and the clock advances.
SpecLecturasFair ==
    /\ SpecLecturas
    /\ WF_vars(Tick)
    /\ \A t \in Tasks : WF_vars(PasoLectura(t))

\* ------------------------------------------------------ hourly aggregates
\* time_bucket('1 hour', timestamp): the clock counts half hours.
Hora(t) == t \div 2

RECURSIVE Suma(_, _)
\* Sum of the values of the rows 'ids' of a table.
Suma(tabla, ids) ==
    IF ids = {} THEN 0
    ELSE LET j == CHOOSE x \in ids : TRUE
         IN tabla[j].value + Suma(tabla, ids \ {j})

\* The row of sensor_readings_hourly for (hour, sensor_id, reading_type):
\* readings_count, avg_value (kept as the sum over the count), min_value
\* and max_value of the readings of the bucket; no row when the bucket is
\* empty.
HourlyAggregate(tabla, hour, sensor_id, reading_type) ==
    LET ids == {j \in DOMAIN tabla :
                  /\ Hora(tabla[j].timestamp) = hour
                  /\ tabla[j].sensor_id = sensor_id
                  /\ tabla[j].reading_type = reading_type}
    IN IF ids = {} THEN [readings_count |-> 0]
       ELSE [readings_count |-> Cardinality(ids),
             avg_value |-> <<Suma(tabla, ids), Cardinality(ids)>>,
             min_value |-> CHOOSE v \in {tabla[j].value : j \in ids} :
                              \A j \in ids : v <= tabla[j].value,
             max_value |-> CHOOSE v \in {tabla[j].value : j \in ids} :
                              \A j \in ids : v >= tabla[j].value]

\* -------------------------------------------------- query specification
\* Rows record_reading can have stored for registered sensors (the caller
\* may hand it the timestamp of the reading).
FilasLecturas ==
    [sensor_id : SensorIds, reading_type : {"temperature"},
     value : {in[2] : in \in LecturasInputs}, timestamp : 0 .. MaxTime]

\* Tables of at most MaxReadings such rows.
TablasLecturas ==
    UNION {[1 .. n -> FilasLecturas] : n \in 0 .. MaxReadings}

\* The readings were stored before the queries are made.
InitConsultas ==
    /\ now = MaxTime
    /\ req = [r \in Reqs |-> IdleReq]
    /\ \E info \in SensorInfos :
          /\ sensors_table = [s \in SensorIds |-> info]
          /\ sensors = [s \in SensorIds |-> info]
    /\ sensor_readings \in TablasLecturas
    /\ sensor_alerts = <<>>
    /\ task = [t \in Tasks |-> IdleTask]
    /\ refugios = <<>>
    /\ alertas_temperatura = <<>>
    /\ InitResto

\* Range queries for a sensor, an optional reading type and a range
\* t1 <= t2.
NextConsultas ==
    \E s \in SensorIds, reading_type \in {None, "temperature"},
       t1 \in 0 .. MaxTime, t2 \in 0 .. MaxTime, limit \in Limits :
       /\ t1 <= t2
       /\ \/ GetSensorData(s, reading_type, t1, t2, limit)
          \/ GetSensorDataFails(s, reading_type, t1, t2, limit)

SpecConsultas == InitConsultas /\ [][NextConsultas]_vars

\* ---------------------------------------- nearest-shelter specification
\* A row of refugios with its operational state and its distance from the
\* point of the query.
RefugioCercanoRow(max, actual, estado, distancia) ==
    [capacidad_maxima |-> max, capacidad_actual |-> actual,
     estado_operativo |-> estado, distancia_km |-> distancia]

\* Shelter rows as loaded by the deployment: r1 holds up to MaxCap people,
\* r2 one person, each with an occupancy inside its range, any operational
\* state and any distance.
InitRefugiosCercanos ==
    /\ InitCommon
    /\ InitResto
    /\ alertas_temperatura = <<>>
    /\ \E a1 \in 0 .. MaxCap, a2 \in 0 .. 1,
          e1 \in EstadosOperativos, e2 \in EstadosOperativos,
          d1 \in Distancias, d2 \in Distancias :
          refugios = [id \in RefugioIds |->
                        IF id = "r1"
                        THEN RefugioCercanoRow(MaxCap, a1, e1, d1)
                        ELSE RefugioCercanoRow(1, a2, e2, d2)]

NextRefugiosCercanos ==
    \E radio_km \in Radios, incluir_llenos \in BOOLEAN :
       \/ GetRefugiosCercanos(radio_km, incluir_llenos)
       \/ GetRefugiosCercanosRaises(radio_km, incluir_llenos)

SpecRefugiosCercanos ==
    InitRefugiosCercanos /\ [][NextRefugiosCercanos]_vars

\* ------------------------------------------------------ SMS specification
\* TwilioService after construction, with or without credentials.
InitSms ==
    /\ InitCommon
    /\ refugios = <<>>
    /\ alertas_temperatura = <<>>
    /\ sensores = {}
    /\ observaciones = <<>>
    /\ resultado = NoResultado
    /\ bulk = [c \in BulkCalls |-> IdleBulk]
    /\ twilio_enabled \in BOOLEAN
    /\ InitAmpliado

NextSms ==
    \E c \in BulkCalls :
       \/ \E n \in 1 .. MaxRecipients, max_concurrent \in MaxConcurrents :
             SendSmsBulk(c, n, max_concurrent)
       \/ \E i \in 1 .. MaxRecipients :
             \/ AcquireSemaphore(c, i)
             \/ SendSmsSimulado(c, i)
             \/ \E outcome \in Outcomes : SendSmsCompleta(c, i, outcome)
       \/ SendSmsBulkReturns(c)

SpecSms == InitSms /\ [][NextSms]_vars

\* --------------------------------------------------- ingest specification
\* Both stores after start-up: every sensor of SensorIds is loaded in
\* self.sensors, every id of SensoresIds has a row in sensores, no reading
\* and no observation is stored.
InitIngesta ==
    /\ now = 0
    /\ req = [r \in Reqs |-> IdleReq]
    /\ \E info \in SensorInfos :
          /\ sensors_table = [s \in SensorIds |-> info]
          /\ sensors = [s \in SensorIds |-> info]
    /\ sensor_readings = <<>>
    /\ sensor_alerts = <<>>
    /\ task = [t \in Tasks |-> IdleTask]
    /\ refugios = <<>>
    /\ alertas_temperatura = <<>>
    /\ sensores = SensoresIds
    /\ observaciones = <<>>
    /\ resultado = NoResultado
    /\ bulk = [c \in BulkCalls |-> IdleBulk]
    /\ twilio_enabled = FALSE
    /\ InitAmpliado

\* The ingest paths: record_reading (POST /sensors/{id}/readings, the
\* simulation loop) and insertar_observacion (POST /observaciones, the MCP
\* tool).
NextIngesta ==
    \/ \E t \in Tasks :
          \/ \E s \in SensorIds \cup {UnknownSensor}, in \in LecturasInputs :
                RecordReading(t, s, in[1], in[2])
          \/ PasoLectura(t)
    \/ \E r \in Reqs :
          \/ \E id \in SensoresIds \cup {UnknownSensorDb}, valor \in ObsValores :
                \/ HttpCrearObservacion(r, id, valor)
                \/ McpInsertarObservacion(r, id, valor)
          \/ InsertarObservacion(r)
          \/ InsertarObservacionSinSensor(r)
          \/ ExecuteCommandRaises(r)
          \/ RouterResponde(r)
          \/ McpResponde(r)

SpecIngesta == InitIngesta /\ [][NextIngesta]_vars

\* ------------------------------------------------ alert SMS specification
\* Alert rows in any documented state, TwilioService with or without
\* credentials; SMS handlers run while alerts are being resolved.
InitSmsAlerta ==
    /\ InitCommon
    /\ refugios = <<>>
    /\ alertas_temperatura \in
          {[id \in AlertaIds |-> AlertaRow(f[id])] : f \in [AlertaIds -> Estados]}
    /\ sensores = {}
    /\ observaciones = <<>>
    /\ resultado = NoResultado
    /\ bulk = [c \in BulkCalls |-> IdleBulk]
    /\ twilio_enabled \in BOOLEAN
    /\ InitAmpliado

NextSmsAlerta ==
    \/ \E e \in Envios :
          \/ \E id \in AlertaIds \cup {UnknownAlerta} :
                \/ HttpEnviarSmsAlerta(e, id)
                \/ McpEnviarSmsAlerta(e, id)
          \/ BuscaAlerta(e)
          \/ GetAlertasActivasRaises(e)
          \/ SendSmsSinCredenciales(e)
          \/ EntregaAlGateway(e)
          \/ \E outcome \in Outcomes : MessagesCreate(e, outcome)
    \/ \E r \in {1} :
          \/ \E id \in AlertaIds :
                \/ HttpResolverAlerta(r, id)
                \/ McpResolverAlerta(r, id)
          \/ ResolverAlerta(r)
          \/ RouterResponde(r)
          \/ McpResponde(r)

SpecSmsAlerta == InitSmsAlerta /\ [][NextSmsAlerta]_vars

\* ------------------------------------------- message body specification
InitCuerpos == InitSms

NextCuerpos ==
    \/ \E n \in Longitudes :
          \/ SendSms(n)
          \/ SendSmsSimula(n)
          \/ PostAlertsSms(n)
          \/ PostAlertsSmsSinConfigurar(n)
    \/ \E i \in 1 .. MaxSends, outcome \in Outcomes : CreateTermina(i, outcome)

SpecCuerpos == InitCuerpos /\ [][NextCuerpos]_vars

\* ---------------------------------------------------- route specification
\* A road graph of Redes, the sensor of SensoresIds snapped to node 1 or 2,
\* every shelter of RefugioIds snapped to node 2 or 3.
InitRutas ==
    /\ InitCommon
    /\ refugios = [id \in RefugioIds |-> RefugioRow(1, 0)]
    /\ alertas_temperatura = <<>>
    /\ sensores = SensoresIds
    /\ observaciones = <<>>
    /\ resultado = NoResultado
    /\ bulk = [c \in BulkCalls |-> IdleBulk]
    /\ twilio_enabled = FALSE
    /\ InitEnvio
    /\ InitSim
    /\ InitMgr
    /\ \E aristas \in Redes, sn \in [SensoresIds -> {1, 2}],
          rn \in [RefugioIds -> {2, 3}], sr \in SinRuta :
          red = [aristas |-> aristas, sensor_nodo |-> sn,
                 refugio_nodo |-> rn, sin_ruta |-> sr]

NextRutas ==
    \E sensor_id \in SensoresIds \cup {UnknownSensorDb},
       refugio_id \in RefugioIds \cup {UnknownRefugio} :
          \/ HttpCalcularRuta(sensor_id, refugio_id)
          \/ McpCalcularRuta(sensor_id, refugio_id)

SpecRutas == InitRutas /\ [][NextRutas]_vars

\* ----------------------------------------------- simulation specification
NextSim ==
    \/ \E h \in SimReqs :
          \/ StartSimulation(h)
          \/ StopSimulation(h)
          \/ StopSimulationTermina(h)
    \/ \E i \in 1 .. MaxLoops :
          \/ LoopIteracion(i)
          \/ GatherTermina(i)
          \/ LoopCancelado(i)

SpecSim == InitLecturas /\ [][NextSim]_vars

\* ======================================================== properties
\* The rule a row of sensor_alerts (or a pending _trigger_alert) belongs
\* to: the 'critical' and 'max' branches are the heat rule, the 'min'
\* branch the cold rule.
Regla(message) ==
    IF message \in {"Valor critico", "Valor alto"} THEN "heat_extreme"
    ELSE "cold_extreme"

\* Ids (SERIAL positions) of the unresolved alerts of a sensor, reading type
\* and rule.
Activas(tabla, s, reading_type, regla) ==
    {i \in DOMAIN tabla :
        /\ tabla[i].sensor_id = s
        /\ tabla[i].reading_type = reading_type
        /\ Regla(tabla[i].message) = regla
        /\ ~tabla[i].resolved}

Reglas == {"heat_extreme", "cold_extreme"}

\* C1: for every sensor and rule kind, at most one alert is active.
C1_AtMostOneActive ==
    \A s \in SensorIds, in \in ReadingInputs, regla \in Reglas :
       Cardinality(Activas(sensor_alerts, s, in[1], regla)) <= 1

\* C8: no alert is opened, and none is about to be, for a value equal to
\* the 'max' or the 'min' threshold of its reading type: a heat alert has a
\* value strictly above 'max', a cold alert one strictly below 'min'.
AbreSoloEstricto(reading_type, value, message) ==
    /\ reading_type \in DOMAIN default_thresholds
    /\ Regla(message) = "heat_extreme"
          => value > default_thresholds[reading_type].max
    /\ Regla(message) = "cold_extreme"
          => value < default_thresholds[reading_type].min

C8_UmbralExactoNoAbre ==
    /\ \A i \in DOMAIN sensor_alerts :
          AbreSoloEstricto(sensor_alerts[i].reading_type,
                           sensor_alerts[i].value, sensor_alerts[i].message)
    /\ \A t \in Tasks :
          task[t].pc = "trigger"
             => AbreSoloEstricto(task[t].reading_type, task[t].value,
                                 task[t].message)

\* C8 witness: a reading equal to 'max' and one equal to 'min' are stored,
\* both have been evaluated (no coroutine is left) and no alert exists.
C8_Witness ==
    /\ \E i, j \in DOMAIN sensor_readings :
          /\ sensor_readings[i].reading_type \in DOMAIN default_thresholds
          /\ sensor_readings[j].reading_type \in DOMAIN default_thresholds
          /\ sensor_readings[i].value =
                default_thresholds[sensor_readings[i].reading_type].max
          /\ sensor_readings[j].value =
                default_thresholds[sensor_readings[j].reading_type].min
    /\ \A t \in Tasks : task[t].pc = "idle"
    /\ sensor_alerts = <<>>

\* C9: a heat alert has level CRITICAL exactly when its value is strictly
\* above the 'critical' threshold (a value equal to it is not critical),
\* and WARNING otherwise.
C9_CriticalSoloPorEncima ==
    \A i \in DOMAIN sensor_alerts :
       Regla(sensor_alerts[i].message) = "heat_extreme"
          => /\ sensor_alerts[i].level \in {"CRITICAL", "WARNING"}
             /\ sensor_alerts[i].level = "CRITICAL"
                   <=> sensor_alerts[i].value >
                          default_thresholds[sensor_alerts[i].reading_type].critical

\* Rank of a level, for "severity can only stay or go up".
Rango(level) == IF level = "CRITICAL" THEN 2 ELSE 1

\* C10: when _trigger_alert runs while an active alert of the same sensor
\* and rule exists, no row is added, the existing row keeps its id, takes
\* the new value and its level does not go down.
C10_ActivaSeActualiza ==
    [][\A t \in Tasks :
          ( /\ task[t].pc = "trigger"
            /\ task'[t].pc = "idle"
            /\ sensor_alerts' # sensor_alerts
            /\ Activas(sensor_alerts, task[t].sensor_id, task[t].reading_type,
                       Regla(task[t].message)) # {} )
          => /\ Len(sensor_alerts') = Len(sensor_alerts)
             /\ \A i \in Activas(sensor_alerts, task[t].sensor_id,
                                 task[t].reading_type, Regla(task[t].message)) :
                   /\ sensor_alerts'[i].value = task[t].value
                   /\ Rango(sensor_alerts'[i].level)
                         >= Rango(sensor_alerts[i].level)]_vars

\* A request whose awaited statement has just been run by the database.
Ejecuta(r, op) ==
    /\ req[r].pc = "svc"
    /\ req[r].op = op
    /\ req'[r].pc = "ret"

\* What the handler of request r answers once the service has returned.
Respuesta(q) ==
    IF q.via = "http" THEN RouterStatus(q.success, q.raised)
    ELSE McpTexto(q.success, q.raised)

\* C2: the estado of an alert row only moves activa -> reconocida ->
\* resuelta or activa -> resuelta; no step moves it backwards, no step
\* changes a resuelta row's estado, and no step removes a row.
C2_EstadoSoloAvanza ==
    [][\A id \in DOMAIN alertas_temperatura :
          /\ id \in DOMAIN alertas_temperatura'
          /\ \/ alertas_temperatura'[id].estado = alertas_temperatura[id].estado
             \/ <<alertas_temperatura[id].estado,
                  alertas_temperatura'[id].estado>> \in
                   {<<"activa", "reconocida">>, <<"reconocida", "resuelta">>,
                    <<"activa", "resuelta">>}]_vars

\* C2 witness: resolver_alerta has moved an alert to resuelta and a further
\* resolve of that row is about to be run.
C2_Witness ==
    \E id \in DOMAIN alertas_temperatura, r \in Reqs :
       /\ alertas_temperatura[id].estado = "resuelta"
       /\ alertas_temperatura[id].personal_notificado # <<>>
       /\ req[r].op = "resolver_alerta"
       /\ req[r].id = id
       /\ req[r].pc = "svc"

C4_NoActivaReportaFallo ==
    [][\A r \in Reqs :
          ( /\ Ejecuta(r, "resolver_alerta")
            /\ \/ req[r].id \notin DOMAIN alertas_temperatura
               \/ alertas_temperatura[req[r].id].estado # "activa" )
          => Respuesta(req'[r]) \notin Exito]_vars

\* C5: every shelter row has 0 <= capacidad_actual <= capacidad_maxima.
C5_CapacidadEnRango ==
    \A id \in DOMAIN refugios :
       /\ 0 <= refugios[id].capacidad_actual
       /\ refugios[id].capacidad_actual <= refugios[id].capacidad_maxima

\* C6: an update with nueva_capacidad above the shelter's capacidad_maxima
\* is answered as not carried out (and the row keeps its capacidad_actual).
C6_SobreMaximoRechazado ==
    [][\A r \in Reqs :
          ( /\ Ejecuta(r, "actualizar_capacidad_refugio")
            /\ req[r].id \in DOMAIN refugios
            /\ req[r].valor > refugios[req[r].id].capacidad_maxima )
          => /\ Respuesta(req'[r]) \notin Exito
             /\ refugios' = refugios]_vars

\* Two updates of the same shelter, both with capacidad_maxima + 1, in
\* flight at the same time.
SobreMaximoALaVez(a, b) ==
    /\ a # b
    /\ req[a].op = "actualizar_capacidad_refugio"
    /\ req[b].op = "actualizar_capacidad_refugio"
    /\ req[a].id = req[b].id
    /\ req[a].id \in DOMAIN refugios
    /\ req[a].valor = refugios[req[a].id].capacidad_maxima + 1
    /\ req[b].valor = req[a].valor
    /\ req[a].pc \in {"svc", "ret"}
    /\ req[b].pc \in {"svc", "ret"}

FueraDeUmbral(reading_type, value, regla) ==
    /\ reading_type \in DOMAIN default_thresholds
    /\ IF regla = "heat_extreme"
       THEN value > default_thresholds[reading_type].max
       ELSE value < default_thresholds[reading_type].min

\* Positions of the stored readings of a sensor and reading type that are
\* beyond the threshold of a rule.
LecturasFuera(s, reading_type, regla) ==
    {j \in DOMAIN sensor_readings :
        /\ sensor_readings[j].sensor_id = s
        /\ sensor_readings[j].reading_type = reading_type
        /\ FueraDeUmbral(reading_type, sensor_readings[j].value, regla)}

\* C11: a heat or cold alert is opened only once the condition has held for
\* some time: a single observation beyond the threshold does not open one,
\* so every alert row is backed by at least two stored observations of its
\* sensor beyond the threshold of its rule.
C11_UnaObservacionNoAbre ==
    \A i \in DOMAIN sensor_alerts :
       Cardinality(LecturasFuera(sensor_alerts[i].sensor_id,
                                 sensor_alerts[i].reading_type,
                                 Regla(sensor_alerts[i].message))) >= 2

\* Alert i is active and, since it was opened, its sensor has stayed back
\* inside the thresholds up to the end of the clock: a later observation of
\* the sensor is stored, every later one is inside the thresholds, and
\* every observation has been evaluated.
DeVueltaEnBanda(i) ==
    /\ i \in DOMAIN sensor_alerts
    /\ ~sensor_alerts[i].resolved
    /\ now = MaxTime
    /\ \A t \in Tasks : task[t].pc = "idle"
    /\ \E j \in DOMAIN sensor_readings :
          /\ sensor_readings[j].sensor_id = sensor_alerts[i].sensor_id
          /\ sensor_readings[j].reading_type = sensor_alerts[i].reading_type
          /\ sensor_readings[j].timestamp > sensor_alerts[i].timestamp
    /\ \A j \in DOMAIN sensor_readings :
          ( /\ sensor_readings[j].sensor_id = sensor_alerts[i].sensor_id
            /\ sensor_readings[j].reading_type = sensor_alerts[i].reading_type
            /\ sensor_readings[j].timestamp > sensor_alerts[i].timestamp )
             => \A regla \in Reglas :
                   ~FueraDeUmbral(sensor_readings[j].reading_type,
                                  sensor_readings[j].value, regla)

\* C12: once the observations of a sensor have stayed back inside the band
\* long enough, its active alert is eventually resolved with no call of an
\* operator.
C12_AlertaSeResuelveSola ==
    \A i \in 1 .. MaxReadings :
       DeVueltaEnBanda(i)
          ~> (i \in DOMAIN sensor_alerts /\ sensor_alerts[i].resolved)

Almacenada(sensor_id, reading_type, value) ==
    \E j \in DOMAIN sensor_readings :
       /\ sensor_readings[j].sensor_id = sensor_id
       /\ sensor_readings[j].reading_type = reading_type
       /\ sensor_readings[j].value = value

\* Whatever is being evaluated, and whatever alert exists, belongs to a
\* stored reading.
EvaluaSoloAlmacenadas ==
    /\ \A t \in Tasks :
          task[t].pc \in {"check", "trigger"}
             => Almacenada(task[t].sensor_id, task[t].reading_type,
                           task[t].value)
    /\ \A i \in DOMAIN sensor_alerts :
          Almacenada(sensor_alerts[i].sensor_id,
                     sensor_alerts[i].reading_type, sensor_alerts[i].value)

\* A coroutine enters the evaluation only in the step that stores its
\* reading; a coroutine whose INSERT ends without a stored row returns
\* False at once, with no evaluation and no alert.
EvaluaTrasEscribir ==
    \A t \in Tasks :
       /\ (task[t].pc # "check" /\ task'[t].pc = "check")
             => /\ task[t].pc = "insert"
                /\ sensor_readings' =
                      Append(sensor_readings,
                             [sensor_id |-> task[t].sensor_id,
                              reading_type |-> task[t].reading_type,
                              value |-> task[t].value, timestamp |-> now])
       /\ (task[t].pc # "trigger" /\ task'[t].pc = "trigger")
             => task[t].pc = "check"
       /\ ( /\ task[t].pc = "insert"
            /\ task'[t].pc # "insert"
            /\ sensor_readings' = sensor_readings )
             => /\ task'[t] = Returned("False")
                /\ sensor_alerts' = sensor_alerts

\* C14: the evaluation of an observation starts only after its write was
\* acknowledged; when the write fails no evaluation runs and no alert is
\* created for it.
C14_EvaluaSoloTrasEscritura ==
    []EvaluaSoloAlmacenadas /\ [][EvaluaTrasEscribir]_vars

\* C14 witness: one record_reading has returned False after its write
\* failed (nothing of it is stored, no alert exists) while another, whose
\* reading is stored, is in its evaluation.
C14_Witness ==
    \E t, u \in Tasks :
       /\ task[t].pc = "idle"
       /\ task[t].ret = "False"
       /\ task[u].pc = "trigger"
       /\ Len(sensor_readings) = 1
       /\ sensor_alerts = <<>>

\* C15: a failure inside the alert evaluation or the alert persistence
\* never turns an accepted write into a failed ingest: a record_reading
\* that leaves its evaluation, with or without an alert row written,
\* returns True, and its stored reading (like every stored reading)
\* remains.
C15_FalloDeAlertaNoFallaIngesta ==
    [][/\ \A t \in Tasks :
            (task[t].pc \in {"check", "trigger"} /\ task'[t].pc = "idle")
               => /\ task'[t].ret = "True"
                  /\ \E j \in DOMAIN sensor_readings' :
                        /\ sensor_readings'[j].sensor_id = task[t].sensor_id
                        /\ sensor_readings'[j].reading_type =
                              task[t].reading_type
                        /\ sensor_readings'[j].value = task[t].value
        /\ Len(sensor_readings') >= Len(sensor_readings)
        /\ \A j \in DOMAIN sensor_readings :
              sensor_readings'[j] = sensor_readings[j]]_vars

\* C15 witness: a reading above 'max' is stored, its record_reading has
\* returned True and no coroutine is left, yet no alert row exists: the
\* INSERT of _trigger_alert failed.
C15_Witness ==
    /\ \A t \in Tasks : task[t].pc = "idle"
    /\ \E t \in Tasks : task[t].ret = "True"
    /\ Len(sensor_readings) = 1
    /\ FueraDeUmbral(sensor_readings[1].reading_type,
                     sensor_readings[1].value, "heat_extreme")
    /\ sensor_alerts = <<>>

\* Positions of the stored readings of sensor s with a timestamp in
\* [t1, t2].
EnRango(s, t1, t2) ==
    {j \in DOMAIN sensor_readings :
        /\ sensor_readings[j].sensor_id = s
        /\ sensor_readings[j].timestamp >= t1
        /\ sensor_readings[j].timestamp <= t2}

\* How many times a row occurs in a sequence of rows.
Veces(row, rows) == Cardinality({k \in DOMAIN rows : rows[k] = row})

\* C16: an answered range query for sensor s and t1 <= t2 (any reading
\* type) holds exactly the stored observations of s with a timestamp in
\* [t1, t2], each as often as it is stored, none missing and none extra,
\* in non-increasing timestamp order.
C16_RangoExacto ==
    (resultado.op = "get_sensor_data" /\ ~resultado.error
       /\ resultado.args[2] = None)
       => LET s == resultado.args[1]
              t1 == resultado.args[3]
              t2 == resultado.args[4]
              rows == resultado.rows
          IN /\ Len(rows) = Cardinality(EnRango(s, t1, t2))
             /\ \A j \in EnRango(s, t1, t2) :
                   Veces(sensor_readings[j], rows) =
                      Cardinality({i \in EnRango(s, t1, t2) :
                                     sensor_readings[i] = sensor_readings[j]})
             /\ \A k \in 1 .. Len(rows) - 1 :
                   rows[k].timestamp >= rows[k + 1].timestamp

\* Two aggregate rows show the same count, mean, minimum and maximum.
MismoAgregado(a, b) ==
    /\ a.readings_count = b.readings_count
    /\ a.readings_count > 0
          => /\ a.avg_value[1] * b.avg_value[2] =
                   b.avg_value[1] * a.avg_value[2]
             /\ a.min_value = b.min_value
             /\ a.max_value = b.max_value

\* C17: feeding an observation that is already stored (same sensor,
\* reading type, value and timestamp) leaves the hourly aggregate of its
\* bucket as it was after the first feed.
C17_RefeedMismoAgregado ==
    [][\A t \in Tasks :
          ( /\ task[t].pc = "insert"
            /\ task'[t].pc = "check"
            /\ \E j \in DOMAIN sensor_readings :
                  sensor_readings[j] =
                     [sensor_id |-> task[t].sensor_id,
                      reading_type |-> task[t].reading_type,
                      value |-> task[t].value, timestamp |-> now] )
             => MismoAgregado(
                   HourlyAggregate(sensor_readings', Hora(now),
                                   task[t].sensor_id, task[t].reading_type),
                   HourlyAggregate(sensor_readings, Hora(now),
                                   task[t].sensor_id, task[t].reading_type))
      ]_vars

\* C18: the nearest-shelter query made to pick a shelter (incluir_llenos
\* false) returns no shelter without free capacity and none whose
\* operational state is not 'disponible'.
C18_SoloRefugiosDisponibles ==
    ( /\ resultado.op = "get_refugios_cercanos"
      /\ ~resultado.error
      /\ ~resultado.args[2] )
       => \A k \in DOMAIN resultado.rows :
             /\ resultado.rows[k].capacidad_actual <
                   resultado.rows[k].capacidad_maxima
             /\ resultado.rows[k].estado_operativo = "disponible"

\* Gateway sends of call c that are in flight: client.messages.create has
\* been handed to the executor and has not ended.
EnVuelo(c) ==
    Cardinality({i \in DOMAIN bulk[c].envios :
                    bulk[c].envios[i].status = "sending"})

\* The largest max_concurrent among the calls that are running.
PVigente ==
    LET ps == {IF bulk[c].pc = "gather" THEN bulk[c].max_concurrent ELSE 0 :
                  c \in BulkCalls}
    IN CHOOSE m \in ps : \A x \in ps : x <= m

\* C19 as stated: at every instant at most P gateway sends are in flight
\* in the fan-out as a whole, however many calls are running.
C19_EnVueloTotalAcotado ==
    \A c, d \in BulkCalls : c # d => EnVuelo(c) + EnVuelo(d) <= PVigente

\* C19 amended: within each send_sms_bulk call at most max_concurrent
\* gateway sends are in flight, for any number of recipients; the permits
\* left are max_concurrent less the sends in flight.
C19_EnVueloPorLlamadaAcotado ==
    \A c \in BulkCalls :
       bulk[c].pc = "gather"
          => /\ EnVuelo(c) <= bulk[c].max_concurrent
             /\ bulk[c].semaphore = bulk[c].max_concurrent - EnVuelo(c)

\* C19 witness: a call with more recipients than permits has used every
\* permit and a recipient is still waiting.
C19_Witness ==
    \E c \in BulkCalls :
       /\ bulk[c].pc = "gather"
       /\ Len(bulk[c].envios) > bulk[c].max_concurrent
       /\ EnVuelo(c) = bulk[c].max_concurrent
       /\ \E i \in DOMAIN bulk[c].envios :
             bulk[c].envios[i].status = "pending"

\* C20: a send that failed with a non-permanent gateway error is tried
\* again: no job ends as failed after a single attempt that met a
\* transient error.
C20_TransitorioSeReintenta ==
    \A c \in BulkCalls : \A i \in DOMAIN bulk[c].envios :
       ( /\ bulk[c].envios[i].status = "done"
         /\ bulk[c].envios[i].sid = "None"
         /\ bulk[c].envios[i].error = "transient" )
          => bulk[c].envios[i].creates >= 2

\* C21: once a handler got a sid from the gateway for an alert, that
\* alert's sms_enviado is true; and sms_enviado is true only for alerts
\* with a send the gateway accepted.
C21_AceptadoMarcaSmsEnviado ==
    /\ \A e \in Envios :
          (/\ envio[e].pc = "done"
           /\ envio[e].sms_id = "sid"
           /\ envio[e].id \in DOMAIN alertas_temperatura)
          => alertas_temperatura[envio[e].id].sms_enviado
    /\ \A id \in DOMAIN alertas_temperatura :
          alertas_temperatura[id].sms_enviado
          => \E i \in DOMAIN gateway :
                /\ gateway[i].alerta_id = id
                /\ gateway[i].status = "accepted"

\* C22: no step hands to the gateway an SMS of an alert that is resolved
\* at that moment.
C22_ResueltaNoSeEntrega ==
    [][Len(gateway') > Len(gateway)
       => alertas_temperatura[gateway'[Len(gateway')].alerta_id].estado
             # "resuelta"]_vars

\* C23: every body handed to the gateway has length at most 1600.
C23_CuerpoAcotado ==
    \A i \in DOMAIN gateway : gateway[i].body <= MaxLongitud

\* What the claim of C24 says of a returned route: the total is the sum
\* of the costs of its steps, and the estimated time is the total.
RutaDevuelta == resultado.op = "ruta" /\ resultado.status \in Exito

C25_MismoNodoTieneExito ==
    (/\ resultado.op = "ruta"
     /\ resultado.args[1] \in sensores
     /\ resultado.args[2] \in DOMAIN refugios
     /\ red.sensor_nodo[resultado.args[1]]
           = red.refugio_nodo[resultado.args[2]])
    => /\ resultado.status \in Exito
       /\ resultado.num_segmentos = 0
       /\ resultado.distancia_total_minutos = 0

\* The texts that tell the caller an endpoint does not exist.
ErroresDeExtremo == {"sensor_no_encontrado", "refugio_no_encontrado"}

\* C26: a request naming a sensor or a shelter that does not exist fails
\* with an unknown-endpoint error, and a request between existing
\* endpoints never does.
C26_ExtremoDesconocidoSeDistingue ==
    resultado.op = "ruta" =>
       ((resultado.args[1] \notin sensores
         \/ resultado.args[2] \notin DOMAIN refugios)
        <=> (resultado.error /\ resultado.detail \in ErroresDeExtremo))

\* A record_reading coroutine whose reading is written and whose
\* evaluation (_check_alerts, _trigger_alert) is not finished.
Evaluando(t) ==
    /\ task[t].op = "record_reading"
    /\ task[t].pc \in {"check", "trigger"}

\* C27: the write of a reading never happens while another reading of the
\* same sensor is written and not yet evaluated.
C27_EscribeYEvaluaSinSolaparse ==
    [][\A t \in Tasks :
          (task[t].pc = "insert" /\ task'[t].pc = "check")
          => ~ \E u \in Tasks \ {t} :
                  /\ Evaluando(u)
                  /\ task[u].sensor_id = task[t].sensor_id]_vars

\* The loops that can still produce readings: tasks that have not finished
\* and were not asked to cancel.
Produciendo == {i \in DOMAIN loops : loops[i].pc # "done" /\ ~loops[i].must_cancel}

\* A step that creates a task for _simulation_loop is taken with the flag
\* simulation_running clear.
CreaSoloParada == Len(loops') > Len(loops) => ~simulation_running

\* C28: at most one simulation loop produces readings at any time, and no
\* task is created while the simulation is running.
C28_UnSoloBucle ==
    [](Cardinality(Produciendo) <= 1) /\ [][CreaSoloParada]_vars

\* Both handlers last called start_simulation and one task exists: the
\* second call came while the simulation was running, and its loop is
\* still the only one.
C28_Witness ==
    /\ simulation_running
    /\ Len(loops) = 1
    /\ Produciendo = {1}
    /\ \A h \in SimReqs : sim_req[h].op = "start" /\ sim_req[h].pc = "done"

\* Server manager specification: a ServerManager with any of the servers
\* of __init__ configured, critical or not, in a deployment where any of
\* them may be unable to start; run() is called once.
InitServidores ==
    /\ InitCommon
    /\ refugios = <<>>
    /\ alertas_temperatura = <<>>
    /\ sensores = {}
    /\ observaciones = <<>>
    /\ resultado = NoResultado
    /\ bulk = [c \in BulkCalls |-> IdleBulk]
    /\ twilio_enabled = FALSE
    /\ InitEnvio
    /\ InitRed
    /\ InitSim
    /\ server_configs \in ServerConfigsPosibles
    /\ fallan \in SUBSET {Servidores[i] : i \in 1 .. Len(Servidores)}
    /\ processes = {}
    /\ running = FALSE
    /\ run = IdleRun

NextServidores ==
    \/ Run
    \/ ValidateServerModulesRaises
    \/ RunSinServidores
    \/ RunExcept
    \/ RunFinally

SpecServidores == InitServidores /\ [][NextServidores]_vars

\* A configured server marked critical that cannot start.
CriticoQueFalla ==
    \E i \in 1 .. Len(server_configs) :
        /\ server_configs[i].critical
        /\ server_configs[i].name \in fallan

\* C30: when a server marked critical fails to start, run() stops what it
\* had started and returns without entering monitoring; and whenever run()
\* returns, the process table is empty.
C30_CriticoFallaYRunRetorna ==
    run.pc = "fin" =>
        /\ CriticoQueFalla => (run.salida = "returned" /\ ~running)
        /\ run.salida = "returned" => processes = {}

\* Registration specification: the sensor service called with one reading
\* that raises no alert and one that raises a critical one.
LecturasRegistro == {<<"temperature", 45>>, <<"temperature", 51>>}

NextRegistro ==
    \E t \in Tasks :
       \/ \E s \in SensorIds : RegisterSensor(t, s)
       \/ \E info \in SensorInfos : UpsertSensor(t, info)
       \/ UpsertSensorRaises(t)
       \/ \E info \in SensorInfos : RegisterSensorMemoria(t, info)
       \/ \E s \in SensorIds \cup {UnknownSensor}, in \in LecturasRegistro :
             RecordReading(t, s, in[1], in[2])
       \/ InsertSensorReading(t)
       \/ InsertSensorReadingFails(t)
       \/ CheckAlertsStep(t)
       \/ TriggerAlert(t)
       \/ TriggerAlertFails(t)

SpecRegistro == Init /\ [][NextRegistro]_vars

\* The registry changes only in the step of register_sensor that follows a
\* finished upsert of that sensor.
RegistraTrasUpsert ==
    sensors' # sensors =>
        \E t \in Tasks :
            /\ task[t].pc = "memoria"
            /\ task[t].sensor_id \in DOMAIN sensors_table
            /\ task'[t].ret = "True"
            /\ DOMAIN sensors' = DOMAIN sensors \cup {task[t].sensor_id}

\* A register_sensor whose upsert raises returns False and leaves the
\* registry as it was.
FalloDejaRegistro ==
    \A t \in Tasks :
        (task[t].pc = "upsert" /\ task'[t].pc \notin {"upsert", "memoria"}) =>
            /\ task'[t].ret = "False"
            /\ sensors' = sensors

\* C29: register_sensor changes the in-memory registry only after the upsert
\* succeeded; when the upsert fails it returns False with the registry
\* exactly as before, and no record_reading gets past the registry check for
\* a sensor that is not in it.
C29_RegistroSoloTrasUpsert ==
    /\ [](\A t \in Tasks :
             task[t].op = "record_reading" =>
                 task[t].sensor_id \in DOMAIN sensors)
    /\ [][RegistraTrasUpsert /\ FalloDejaRegistro]_vars

\* A registration failed with the registry still empty, and the other
\* coroutine, a record_reading, got False back with no reading stored.
C29_Witness ==
    \E t \in Tasks, u \in Tasks :
        /\ t # u
        /\ task[t].op = "register_sensor"
        /\ task[t].ret = "False"
        /\ DOMAIN sensors = {}
        /\ DOMAIN sensors_table = {}
        /\ task[u].pc = "idle"
        /\ task[u].op = "none"
        /\ task[u].ret = "False"
        /\ sensor_readings = <<>>

====
